---- MODULE Spec2Model ----
(***************************************************************************)
(* A model of snug (jackburrus/snug-ai): the context packer's pipeline     *)
(*   score (scorePriority, applyRecencyBias, custom scorer)                *)
(*   -> greedyPack -> enforceConstraints -> applyPlacement -> report       *)
(* and the ContextOptimizer registry (add / remove / clear / pack).        *)
(*                                                                         *)
(* Scores are JavaScript numbers.  They are modelled as IEEE-754 binary64  *)
(* values (53-bit significand, round to nearest, ties to even) because     *)
(* applyRecencyBias multiplies them by a computed factor and the packer    *)
(* compares the products.  A significand does not fit TLC's 32-bit         *)
(* integers, so it is kept as a little-endian sequence of base-2^14 limbs. *)
(***************************************************************************)
EXTENDS Integers, Sequences, FiniteSets, TLC

\* ------------------------------------------------------------------------
\* Natural numbers of any size: little-endian sequences of limbs
\* ------------------------------------------------------------------------

\* Limb base 2^14: a limb times a 16-bit number stays below 2^31.
LimbBits == 14
Base == 16384
\* Significand width of a binary64 number.
SigBits == 53
\* Extra quotient bits computed by a division before rounding.
DivGuard == 20

RECURSIVE Pow2(_)
Pow2(n) == IF n = 0 THEN 1 ELSE 2 * Pow2(n - 1)

RECURSIVE Zeros(_)
Zeros(n) == IF n = 0 THEN <<>> ELSE <<0>> \o Zeros(n - 1)

RECURSIVE BNorm(_)
BNorm(s) ==
  IF s = <<>> THEN <<>>
  ELSE IF s[Len(s)] = 0 THEN BNorm(SubSeq(s, 1, Len(s) - 1)) ELSE s

RECURSIVE BMulSmallC(_, _, _)
BMulSmallC(s, k, carry) ==
  IF s = <<>>
  THEN IF carry = 0 THEN <<>> ELSE <<carry % Base>> \o BMulSmallC(<<>>, k, carry \div Base)
  ELSE LET t == s[1] * k + carry
       IN  <<t % Base>> \o BMulSmallC(Tail(s), k, t \div Base)

BMulSmall(s, k) == BNorm(BMulSmallC(s, k, 0))

RECURSIVE BAddC(_, _, _)
BAddC(a, b, carry) ==
  IF a = <<>> /\ b = <<>>
  THEN IF carry = 0 THEN <<>> ELSE <<carry>>
  ELSE LET x == IF a = <<>> THEN 0 ELSE a[1]
           y == IF b = <<>> THEN 0 ELSE b[1]
           t == x + y + carry
       IN  <<t % Base>> \o BAddC(IF a = <<>> THEN <<>> ELSE Tail(a),
                                 IF b = <<>> THEN <<>> ELSE Tail(b),
                                 t \div Base)

BAdd(a, b) == BNorm(BAddC(a, b, 0))

\* a - b for a >= b
RECURSIVE BSubC(_, _, _)
BSubC(a, b, borrow) ==
  IF a = <<>> THEN <<>>
  ELSE LET y == IF b = <<>> THEN 0 ELSE b[1]
           t == a[1] - y - borrow
       IN  <<IF t < 0 THEN t + Base ELSE t>>
             \o BSubC(Tail(a), IF b = <<>> THEN <<>> ELSE Tail(b), IF t < 0 THEN 1 ELSE 0)

BSub(a, b) == BNorm(BSubC(a, b, 0))

\* a * b, one limb of b at a time
RECURSIVE BMulLimbs(_, _)
BMulLimbs(a, b) ==
  IF b = <<>> THEN <<>>
  ELSE IF b[1] = 0 THEN <<0>> \o BMulLimbs(a, Tail(b))
  ELSE BAddC(BMulSmallC(a, b[1], 0), <<0>> \o BMulLimbs(a, Tail(b)), 0)

\* The number of zero limbs at the low end
RECURSIVE LowZeros(_)
LowZeros(s) == IF s = <<>> \/ s[1] # 0 THEN 0 ELSE 1 + LowZeros(Tail(s))

\* a * b: the low zero limbs are set aside and the shorter factor is the
\* one taken limb by limb
BMul(a, b) ==
  LET za == LowZeros(a)
      zb == LowZeros(b)
      x  == SubSeq(a, za + 1, Len(a))
      y  == SubSeq(b, zb + 1, Len(b))
  IN  IF x = <<>> \/ y = <<>> THEN <<>>
      ELSE BNorm(Zeros(za + zb)
                   \o (IF Len(x) < Len(y) THEN BMulLimbs(y, x) ELSE BMulLimbs(x, y)))

\* quotient and remainder of s by a small k (k < 2^16)
RECURSIVE BDivMod(_, _)
BDivMod(s, k) ==
  IF s = <<>> THEN [q |-> <<>>, r |-> 0]
  ELSE LET h == BDivMod(Tail(s), k)
           t == h.r * Base + s[1]
       IN  [q |-> <<t \div k>> \o h.q, r |-> t % k]

RECURSIVE BitLenSmall(_)
BitLenSmall(n) == IF n = 0 THEN 0 ELSE 1 + BitLenSmall(n \div 2)

BBitLen(s) ==
  LET n == BNorm(s)
  IN  IF n = <<>> THEN 0 ELSE LimbBits * (Len(n) - 1) + BitLenSmall(n[Len(n)])

BShl(s, n) == BNorm(Zeros(n \div LimbBits) \o BMulSmallC(s, Pow2(n % LimbBits), 0))

\* floor(s / 2^n), and whether any of the n bits shifted out was set
BShr(s, n) ==
  LET q    == n \div LimbBits
      low  == SubSeq(s, 1, IF q < Len(s) THEN q ELSE Len(s))
      high == IF q < Len(s) THEN SubSeq(s, q + 1, Len(s)) ELSE <<>>
      dm   == BDivMod(high, Pow2(n % LimbBits))
  IN  [q |-> BNorm(dm.q), sticky |-> (dm.r # 0) \/ (BNorm(low) # <<>>)]

BIsOdd(s) == s # <<>> /\ s[1] % 2 = 1

RECURSIVE BLessFrom(_, _, _)
BLessFrom(a, b, i) ==
  IF i = 0 THEN FALSE
  ELSE IF a[i] # b[i] THEN a[i] < b[i] ELSE BLessFrom(a, b, i - 1)

BLess(a, b) ==
  LET x == BNorm(a)
      y == BNorm(b)
  IN  IF Len(x) # Len(y) THEN Len(x) < Len(y) ELSE BLessFrom(x, y, Len(x))

BFromInt(n) == BNorm(<<n % Base, (n \div Base) % Base, n \div (Base * Base)>>)

\* ------------------------------------------------------------------------
\* JavaScript numbers (binary64): Infinity, 0, or m * 2^e with
\* 2^52 <= m < 2^53
\* ------------------------------------------------------------------------

Infinity == [cls |-> "inf",  e |-> 0, m |-> <<>>]
FZero    == [cls |-> "zero", e |-> 0, m |-> <<>>]

\* The binary64 number nearest to N * 2^e (inexact: bits were already lost)
FRound(N, e, inexact) ==
  LET L == BBitLen(N)
  IN  IF L = 0 THEN FZero
      ELSE IF L <= SigBits
      THEN [cls |-> "num", e |-> e - (SigBits - L), m |-> BShl(N, SigBits - L)]
      ELSE LET d      == L - SigBits
               s1     == BShr(N, d - 1)
               half   == BIsOdd(s1.q)
               q      == BDivMod(s1.q, 2).q
               sticky == s1.sticky \/ inexact
               up     == half /\ (sticky \/ BIsOdd(q))
               r      == IF up THEN BAdd(q, <<1>>) ELSE BNorm(q)
           IN  IF BBitLen(r) > SigBits
               THEN [cls |-> "num", e |-> e + d + 1, m |-> BDivMod(r, 2).q]
               ELSE [cls |-> "num", e |-> e + d, m |-> r]

FromInt(n) == FRound(BFromInt(n), 0, FALSE)

\* a * b  (Infinity * 0 is NaN and is not produced by the modelled code)
FMul(a, b) ==
  IF a.cls = "zero" \/ b.cls = "zero" THEN FZero
  ELSE IF a.cls = "inf" \/ b.cls = "inf" THEN Infinity
  ELSE FRound(BMul(a.m, b.m), a.e + b.e, FALSE)

\* a / k for an integer k > 0
FDivInt(a, k) ==
  IF a.cls # "num" THEN a
  ELSE LET dm == BDivMod(BShl(a.m, DivGuard), k)
       IN  FRound(BNorm(dm.q), a.e - DivGuard, dm.r # 0)

FAdd(a, b) ==
  IF a.cls = "inf" \/ b.cls = "inf" THEN Infinity
  ELSE IF a.cls = "zero" THEN b
  ELSE IF b.cls = "zero" THEN a
  ELSE LET e == IF a.e < b.e THEN a.e ELSE b.e
       IN  FRound(BAdd(BShl(a.m, a.e - e), BShl(b.m, b.e - e)), e, FALSE)

\* a < b
FLess(a, b) ==
  IF a.cls = "inf" THEN FALSE
  ELSE IF b.cls = "inf" THEN TRUE
  ELSE IF b.cls = "zero" THEN FALSE
  ELSE IF a.cls = "zero" THEN TRUE
  ELSE IF a.e # b.e THEN a.e < b.e
  ELSE BLess(a.m, b.m)

\* a - b for finite a >= b >= 0
FSub(a, b) ==
  IF b.cls = "zero" THEN a
  ELSE IF a = b THEN FZero
  ELSE LET e == IF a.e < b.e THEN a.e ELSE b.e
       IN  FRound(BSub(BShl(a.m, a.e - e), BShl(b.m, b.e - e)), e, FALSE)

\* ------------------------------------------------------------------------
\* Items
\* ------------------------------------------------------------------------

Priorities == {"required", "high", "medium", "low"}

\* PRIORITY_SCORES: required -> Infinity, high -> 100, medium -> 50, low -> 10
PriorityHigh == 100
PriorityMedium == 50
PriorityLow == 10

scorePriority(priority) ==
  CASE priority = "required" -> Infinity
    [] priority = "high"     -> FromInt(PriorityHigh)
    [] priority = "medium"   -> FromInt(PriorityMedium)
    [] OTHER                 -> FromInt(PriorityLow)

\* `${source}_${suffix}`: the source name and the name, id or index after it
ItemId(source, suffix) == <<source, suffix>>

IsRequired(item) == item.priority = "required"
IsOptional(item) == item.priority # "required"

Max0(n) == IF n > 0 THEN n ELSE 0

RECURSIVE SumTokens(_)
SumTokens(s) == IF s = <<>> THEN 0 ELSE s[1].tokens + SumTokens(Tail(s))

\* ------------------------------------------------------------------------
\* greedyPack
\* ------------------------------------------------------------------------

\* A comparator that prefers the dearer of two items of equal score
SortCompareTokensDescending(a, b) ==
  IF FLess(b.score, a.score) THEN 0 - 1
  ELSE IF FLess(a.score, b.score) THEN 1
  ELSE b.tokens - a.tokens

\* The sort comparator (a, b) => b.score - a.score || a.tokens - b.tokens:
\* negative when a sorts first.  Infinity - Infinity is NaN, which is falsy.
SortCompare(a, b) ==
  IF FLess(b.score, a.score) THEN 0 - 1
  ELSE IF FLess(a.score, b.score) THEN 1
  ELSE a.tokens - b.tokens

\* An insertion that puts an element before its equals
RECURSIVE InsertBeforeEqual(_, _)
InsertBeforeEqual(s, x) ==
  IF s = <<>> THEN <<x>>
  ELSE IF SortCompare(x, s[1]) <= 0 THEN <<x>> \o s
  ELSE <<s[1]>> \o InsertBeforeEqual(Tail(s), x)

\* Array.prototype.sort is stable: equal elements keep their input order.
RECURSIVE InsertSorted(_, _)
InsertSorted(s, x) ==
  IF s = <<>> THEN <<x>>
  ELSE IF SortCompare(x, s[1]) < 0 THEN <<x>> \o s
  ELSE <<s[1]>> \o InsertSorted(Tail(s), x)

RECURSIVE SortOptional(_)
SortOptional(s) ==
  IF s = <<>> THEN <<>>
  ELSE InsertSorted(SortOptional(SubSeq(s, 1, Len(s) - 1)), s[Len(s)])

DroppedItem(item, reason) ==
  [source |-> item.source, id |-> item.id, tokens |-> item.tokens,
   score |-> item.score, reason |-> reason]

\* A turn that admits without looking at the budget
AdmitAlways(acc, item, budget) ==
  [included    |-> Append(acc.included, item),
   dropped     |-> acc.dropped,
   totalTokens |-> acc.totalTokens + item.tokens]

\* A turn that admits only strictly below the budget
AdmitStrictlyBelow(acc, item, budget) ==
  IF acc.totalTokens + item.tokens < budget
  THEN [included    |-> Append(acc.included, item),
        dropped     |-> acc.dropped,
        totalTokens |-> acc.totalTokens + item.tokens]
  ELSE [included    |-> acc.included,
        dropped     |-> Append(acc.dropped, DroppedItem(item, "budget exhausted")),
        totalTokens |-> acc.totalTokens]

\* A turn that drops everything once an item did not fit
StopAtFirstMiss(acc, item, budget) ==
  IF acc.dropped = <<>> /\ acc.totalTokens + item.tokens <= budget
  THEN [included    |-> Append(acc.included, item),
        dropped     |-> acc.dropped,
        totalTokens |-> acc.totalTokens + item.tokens]
  ELSE [included    |-> acc.included,
        dropped     |-> Append(acc.dropped, DroppedItem(item, "budget exhausted")),
        totalTokens |-> acc.totalTokens]

\* One turn of the loop over the sorted optional items
ConsiderOptional(acc, item, budget) ==
  IF acc.totalTokens + item.tokens <= budget
  THEN [included    |-> Append(acc.included, item),
        dropped     |-> acc.dropped,
        totalTokens |-> acc.totalTokens + item.tokens]
  ELSE [included    |-> acc.included,
        dropped     |-> Append(acc.dropped, DroppedItem(item, "budget exhausted")),
        totalTokens |-> acc.totalTokens]

RECURSIVE PackOptional(_, _, _)
PackOptional(sorted, budget, acc) ==
  IF sorted = <<>> THEN acc
  ELSE PackOptional(Tail(sorted), budget, ConsiderOptional(acc, sorted[1], budget))

\* Required items that go in only when they fit together
IncludeRequiredIfFits(items, budget) ==
  LET required == SelectSeq(items, IsRequired)
  IN  IF SumTokens(required) <= budget
      THEN [included |-> required, dropped |-> <<>>, totalTokens |-> SumTokens(required)]
      ELSE [included |-> <<>>, dropped |-> <<>>, totalTokens |-> 0]

\* Required items go in first, whatever the budget
IncludeRequired(items, budget) ==
  LET required == SelectSeq(items, IsRequired)
  IN  [included |-> required, dropped |-> <<>>, totalTokens |-> SumTokens(required)]

greedyPack(items, budget) ==
  PackOptional(SortOptional(SelectSeq(items, IsOptional)), budget,
               IncludeRequired(items, budget))

\* ------------------------------------------------------------------------
\* enforceConstraints
\* ------------------------------------------------------------------------

ItemIds(items) == {items[i].id : i \in DOMAIN items}

\* new Map(available.map(i => [i.id, i])): a later entry replaces an earlier one
MapHas(available, id) == \E i \in DOMAIN available : available[i].id = id
MapGet(available, id) ==
  available[CHOOSE i \in DOMAIN available :
              /\ available[i].id = id
              /\ \A j \in DOMAIN available : available[j].id = id => j <= i]

\* included.findIndex(i => i.id === id), 0 for -1
FindIndex(items, id) ==
  IF \E i \in DOMAIN items : items[i].id = id
  THEN CHOOSE i \in DOMAIN items :
         items[i].id = id /\ \A j \in DOMAIN items : items[j].id = id => i <= j
  ELSE 0

RemoveAt(items, i) == SubSeq(items, 1, i - 1) \o SubSeq(items, i + 1, Len(items))

\* The locals of enforceConstraints once the loop is entered
EnterConstraints(included) ==
  [included      |-> included,
   includedIds   |-> ItemIds(included),
   currentTokens |-> SumTokens(included),
   added         |-> <<>>,
   removed       |-> <<>>]

\* The dependency fits: add it
AddDependency(st, dep) ==
  [included      |-> Append(st.included, dep),
   includedIds   |-> st.includedIds \cup {dep.id},
   currentTokens |-> st.currentTokens + dep.tokens,
   added         |-> Append(st.added, dep),
   removed       |-> st.removed]

\* A removal that does not look at the priority of the trigger
RemoveTriggerEvenRequired(st, ifIncluded) ==
  LET triggerIdx == FindIndex(st.included, ifIncluded)
  IN  IF triggerIdx # 0
      THEN LET trigger == st.included[triggerIdx]
           IN  [included      |-> RemoveAt(st.included, triggerIdx),
                includedIds   |-> st.includedIds \ {trigger.id},
                currentTokens |-> st.currentTokens - trigger.tokens,
                added         |-> st.added,
                removed       |-> Append(st.removed, trigger)]
      ELSE st

\* A removal that takes the dependency admitted last out with the trigger
RemoveTriggerAndLastAdded(st, ifIncluded) ==
  LET triggerIdx == FindIndex(st.included, ifIncluded)
  IN  IF triggerIdx # 0 /\ st.included[triggerIdx].priority # "required"
      THEN LET trigger == st.included[triggerIdx]
               kept    == SelectSeq(RemoveAt(st.included, triggerIdx),
                                    LAMBDA i : st.added = <<>> \/ i.id # st.added[Len(st.added)].id)
           IN  [included      |-> kept,
                includedIds   |-> ItemIds(kept),
                currentTokens |-> SumTokens(kept),
                added         |-> st.added,
                removed       |-> Append(st.removed, trigger)]
      ELSE st

\* The dependency does not fit: remove the trigger, unless it is required
RemoveTrigger(st, ifIncluded) ==
  LET triggerIdx == FindIndex(st.included, ifIncluded)
  IN  IF triggerIdx # 0 /\ st.included[triggerIdx].priority # "required"
      THEN LET trigger == st.included[triggerIdx]
           IN  [included      |-> RemoveAt(st.included, triggerIdx),
                includedIds   |-> st.includedIds \ {trigger.id},
                currentTokens |-> st.currentTokens - trigger.tokens,
                added         |-> st.added,
                removed       |-> Append(st.removed, trigger)]
      ELSE st

\* A turn that leaves the trigger in when the dependency does not fit
ConstraintStepKeepTrigger(st, constraint, available, budget) ==
  IF constraint.ifIncluded \notin st.includedIds THEN st
  ELSE IF constraint.thenRequire \in st.includedIds THEN st
  ELSE IF ~MapHas(available, constraint.thenRequire) THEN st
  ELSE LET dep == MapGet(available, constraint.thenRequire)
       IN  IF st.currentTokens + dep.tokens <= budget
           THEN AddDependency(st, dep)
           ELSE st

\* A turn that admits the dependency without looking at the budget
ConstraintStepAdmitAlways(st, constraint, available, budget) ==
  IF constraint.ifIncluded \notin st.includedIds THEN st
  ELSE IF constraint.thenRequire \in st.includedIds THEN st
  ELSE IF ~MapHas(available, constraint.thenRequire) THEN st
  ELSE AddDependency(st, MapGet(available, constraint.thenRequire))

\* A turn that removes the trigger of a dependency nobody has
ConstraintStepEvictUnknown(st, constraint, available, budget) ==
  IF constraint.ifIncluded \notin st.includedIds THEN st
  ELSE IF constraint.thenRequire \in st.includedIds THEN st
  ELSE IF ~MapHas(available, constraint.thenRequire)
  THEN RemoveTrigger(st, constraint.ifIncluded)
  ELSE LET dep == MapGet(available, constraint.thenRequire)
       IN  IF st.currentTokens + dep.tokens <= budget
           THEN AddDependency(st, dep)
           ELSE RemoveTrigger(st, constraint.ifIncluded)

\* A turn that admits a dependency that fits the budget by itself
ConstraintStepFitsAlone(st, constraint, available, budget) ==
  IF constraint.ifIncluded \notin st.includedIds THEN st
  ELSE IF constraint.thenRequire \in st.includedIds THEN st
  ELSE IF ~MapHas(available, constraint.thenRequire) THEN st
  ELSE LET dep == MapGet(available, constraint.thenRequire)
       IN  IF dep.tokens <= budget
           THEN AddDependency(st, dep)
           ELSE RemoveTrigger(st, constraint.ifIncluded)

\* A turn that does not give back the budget of the triggers removed so far
ConstraintStepNoRefund(st, constraint, available, budget) ==
  IF constraint.ifIncluded \notin st.includedIds THEN st
  ELSE IF constraint.thenRequire \in st.includedIds THEN st
  ELSE IF ~MapHas(available, constraint.thenRequire) THEN st
  ELSE LET dep == MapGet(available, constraint.thenRequire)
       IN  IF st.currentTokens + SumTokens(st.removed) + dep.tokens <= budget
           THEN AddDependency(st, dep)
           ELSE RemoveTrigger(st, constraint.ifIncluded)

\* One turn of the loop over the constraints
ConstraintStep(st, constraint, available, budget) ==
  IF constraint.ifIncluded \notin st.includedIds THEN st
  ELSE IF constraint.thenRequire \in st.includedIds THEN st
  ELSE IF ~MapHas(available, constraint.thenRequire) THEN st
  ELSE LET dep == MapGet(available, constraint.thenRequire)
       IN  IF st.currentTokens + dep.tokens <= budget
           THEN AddDependency(st, dep)
           ELSE RemoveTrigger(st, constraint.ifIncluded)

RECURSIVE ConstraintLoop(_, _, _, _)
ConstraintLoop(st, constraints, available, budget) ==
  IF constraints = <<>> THEN st
  ELSE ConstraintLoop(ConstraintStep(st, constraints[1], available, budget),
                      Tail(constraints), available, budget)

\* After the loop, available items are admitted in order while they fit
RECURSIVE Refill(_, _, _)
Refill(st, available, budget) ==
  IF available = <<>> THEN st
  ELSE Refill(IF /\ available[1].id \notin st.includedIds
                 /\ st.currentTokens + available[1].tokens <= budget
              THEN AddDependency(st, available[1]) ELSE st,
              Tail(available), budget)

\* An enforcement that refills the budget its evictions freed
enforceConstraintsRefill(included, available, constraints, budget) ==
  IF constraints = <<>>
  THEN [included |-> included, added |-> <<>>, removed |-> <<>>]
  ELSE LET st == Refill(ConstraintLoop(EnterConstraints(included), constraints,
                                       available, budget),
                        available, budget)
       IN  [included |-> st.included, added |-> st.added, removed |-> st.removed]

enforceConstraints(included, available, constraints, budget) ==
  IF constraints = <<>>
  THEN [included |-> included, added |-> <<>>, removed |-> <<>>]
  ELSE LET st == ConstraintLoop(EnterConstraints(included), constraints, available, budget)
       IN  [included |-> st.included, added |-> st.added, removed |-> st.removed]

\* ------------------------------------------------------------------------
\* estimateTokens and the tokenizer.  A text is a sequence of characters.
\* ------------------------------------------------------------------------

\* { } [ ] ( ) < > ; = : , " '
StructuralChars ==
  {"{", "}", "[", "]", "(", ")", "<", ">", ";", "=", ":", ",", "\"", "'"}

\* characters per token of plain text and of code or JSON
CharsPerTokenText == 4
CharsPerTokenCode == 3

\* structural / len > 0.1 is decided as 10 * structural > len: both are
\* exact for the lengths of a text
estimateTokens(text) ==
  IF text = <<>> THEN 0
  ELSE LET len           == Len(text)
           structural    == Cardinality({i \in DOMAIN text : text[i] \in StructuralChars})
           charsPerToken == IF 10 * structural > len THEN CharsPerTokenCode
                            ELSE CharsPerTokenText
       IN  (len + charsPerToken - 1) \div charsPerToken

\* DefaultTokenizer.count
TokenizerCount(text) == estimateTokens(text)

\* ------------------------------------------------------------------------
\* truncateToTokens
\* ------------------------------------------------------------------------

\* text.slice(0, n) for 0 <= n
Slice(text, n) == SubSeq(text, 1, IF n < Len(text) THEN n ELSE Len(text))

\* text.lastIndexOf(c): the 0-based index of the last c, or -1
LastIndexOf(text, c) ==
  IF \A i \in DOMAIN text : text[i] # c THEN 0 - 1
  ELSE (CHOOSE i \in DOMAIN text :
          text[i] = c /\ \A j \in DOMAIN text : text[j] = c => j <= i) - 1

\* The loop of the binary search: the last mid whose prefix fits
RECURSIVE PrefixSearch(_, _, _, _, _)
PrefixSearch(text, targetTokens, lo, hi, best) ==
  IF lo > hi THEN best
  ELSE LET mid == (lo + hi) \div 2
       IN  IF TokenizerCount(Slice(text, mid)) <= targetTokens
           THEN PrefixSearch(text, targetTokens, mid + 1, hi, mid)
           ELSE PrefixSearch(text, targetTokens, lo, mid - 1, best)

\* 0.8, the number nearest to 4/5
WordBoundaryRatio == FDivInt(FromInt(4), 5)

\* lastSpace > best * 0.8
AfterWordBoundaryRatio(lastSpace, best) ==
  lastSpace >= 0 /\ FLess(FMul(FromInt(best), WordBoundaryRatio), FromInt(lastSpace))

Ellipsis == <<".", ".", ".">>

truncateToTokens(text, targetTokens) ==
  IF TokenizerCount(text) <= targetTokens THEN text
  ELSE IF targetTokens <= 0 THEN <<>>
  ELSE LET best      == PrefixSearch(text, targetTokens, 0, Len(text), 0)
           result    == Slice(text, best)
           lastSpace == LastIndexOf(result, " ")
           cut       == IF AfterWordBoundaryRatio(lastSpace, best)
                        THEN Slice(result, lastSpace) ELSE result
       IN  cut \o (IF best < Len(text) THEN Ellipsis ELSE <<>>)

\* ------------------------------------------------------------------------
\* applyRecencyBias
\* ------------------------------------------------------------------------

\* minFactor = 0.1, the number nearest to 1/10
DefaultMinFactor == FDivInt(FromInt(1), 10)

\* minFactor + ((1 - minFactor) * i) / (total - 1), for the 0-based index i
RecencyFactor(i, total, minFactor) ==
  FAdd(minFactor, FDivInt(FMul(FSub(FromInt(1), minFactor), FromInt(i)), total - 1))

applyRecencyBias(items, minFactor) ==
  LET total == Len(items)
  IN  IF total <= 1 THEN items
      ELSE [i \in 1..total |->
              IF items[i].priority = "required" THEN items[i]
              ELSE [items[i] EXCEPT !.score = FMul(@, RecencyFactor(i - 1, total, minFactor))]]

\* ------------------------------------------------------------------------
\* applyPlacement
\* ------------------------------------------------------------------------

\* history.sort((a, b) => a.index - b.index), stable
RECURSIVE InsertByIndex(_, _)
InsertByIndex(s, x) ==
  IF s = <<>> THEN <<x>>
  ELSE IF x.index - s[1].index < 0 THEN <<x>> \o s
  ELSE <<s[1]>> \o InsertByIndex(Tail(s), x)

\* A history left in the order of the input
SortByIndexKeepOrder(s) == s

RECURSIVE SortByIndex(_)
SortByIndex(s) ==
  IF s = <<>> THEN <<>>
  ELSE InsertByIndex(SortByIndex(SubSeq(s, 1, Len(s) - 1)), s[Len(s)])

\* rest.sort((a, b) => b.score - a.score), stable; a NaN difference
\* (Infinity - Infinity) counts as 0
RECURSIVE InsertByScore(_, _)
InsertByScore(s, x) ==
  IF s = <<>> THEN <<x>>
  ELSE IF FLess(s[1].score, x.score) THEN <<x>> \o s
  ELSE <<s[1]>> \o InsertByScore(Tail(s), x)

RECURSIVE SortByScore(_)
SortByScore(s) ==
  IF s = <<>> THEN <<>>
  ELSE InsertByScore(SortByScore(SubSeq(s, 1, Len(s) - 1)), s[Len(s)])

\* A middle list left in rank order
ReverseNot(s) == s

\* middle.reverse()
RECURSIVE Reverse(_)
Reverse(s) == IF s = <<>> THEN <<>> ELSE Append(Reverse(Tail(s)), s[1])

\* A packed item that carries an empty string in place of the value
PackedItemValueLost(item, placement) ==
  [id |-> item.id, source |-> item.source, content |-> item.content,
   value |-> [kind |-> "string", text |-> <<>>, named |-> FALSE, name |-> ""],
   tokens |-> item.tokens, score |-> item.score, placement |-> placement]

PackedItem(item, placement) ==
  [id |-> item.id, source |-> item.source, content |-> item.content,
   value |-> item.value, tokens |-> item.tokens, score |-> item.score,
   placement |-> placement]

Push(arr, placement) == [i \in 1..Len(arr) |-> PackedItem(arr[i], placement)]

\* A placement that pushes the floating items before the system items
applyPlacementFloatingFirst(items) ==
  LET system    == SelectSeq(items, LAMBDA i : i.source = "system")
      query     == SelectSeq(items, LAMBDA i : i.source = "query")
      history   == SortByIndex(SelectSeq(items, LAMBDA i : i.source = "history"))
      rest      == SortByScore(SelectSeq(items,
                     LAMBDA i : i.source \notin {"system", "query", "history"}))
      beginning == [k \in 1..((Len(rest) + 1) \div 2) |-> rest[2 * k - 1]]
      middle    == Reverse([k \in 1..(Len(rest) \div 2) |-> rest[2 * k]])
  IN  Push(beginning, "beginning") \o Push(system, "beginning") \o Push(middle, "middle")
        \o Push(history, "end") \o Push(query, "end")

\* The five pushes, in the order of the code
applyPlacement(items) ==
  LET system    == SelectSeq(items, LAMBDA i : i.source = "system")
      query     == SelectSeq(items, LAMBDA i : i.source = "query")
      history   == SortByIndex(SelectSeq(items, LAMBDA i : i.source = "history"))
      rest      == SortByScore(SelectSeq(items,
                     LAMBDA i : i.source \notin {"system", "query", "history"}))
      beginning == [k \in 1..((Len(rest) + 1) \div 2) |-> rest[2 * k - 1]]
      middle    == Reverse([k \in 1..(Len(rest) \div 2) |-> rest[2 * k]])
  IN  Push(system, "beginning") \o Push(beginning, "beginning") \o Push(middle, "middle")
        \o Push(history, "end") \o Push(query, "end")

\* ------------------------------------------------------------------------
\* ContextOptimizer
\* ------------------------------------------------------------------------

DEFAULT_RESERVE_OUTPUT == 4096

\* contextWindow - (reserveOutput ?? DEFAULT_RESERVE_OUTPUT)
BudgetOf(cfg) ==
  cfg.contextWindow -
    (IF cfg.hasReserveOutput THEN cfg.reserveOutput ELSE DEFAULT_RESERVE_OUTPUT)

\* `${source}_${name}` for an object with a name or id, else `${source}_${index}`
deriveItemId(source, raw, index) ==
  IF raw.kind = "object" /\ raw.named THEN ItemId(source, raw.name)
  ELSE ItemId(source, ToString(index))

\* A promotion that starts one item late
PromoteLastButOne(items, options) ==
  IF options.hasKeepLast /\ options.keepLast > 0
  THEN LET start == Max0(Len(items) - options.keepLast) + 1
       IN  [i \in 1..Len(items) |->
              IF i - 1 >= start THEN [items[i] EXCEPT !.priority = "required"] ELSE items[i]]
  ELSE items

\* keepLast: the last N items become required
PromoteLast(items, options) ==
  IF options.hasKeepLast /\ options.keepLast > 0
  THEN LET start == Max0(Len(items) - options.keepLast)
       IN  [i \in 1..Len(items) |->
              IF i - 1 >= start THEN [items[i] EXCEPT !.priority = "required"] ELSE items[i]]
  ELSE items

\* content is one raw value or an array of them; a raw value carries the
\* text that stands for it (itself, or JSON.stringify of an object)
normalizeContent(source, content, options) ==
  PromoteLast(
    [i \in 1..Len(content.values) |->
       LET raw == content.values[i]
       IN  [id       |-> deriveItemId(source, raw, i - 1),
            source   |-> source,
            content  |-> raw.text,
            value    |-> raw,
            tokens   |-> TokenizerCount(raw.text),
            priority |-> options.priority,
            score    |-> FZero,
            index    |-> i - 1]],
    options)

SourceIndex(srcs, name) ==
  IF \E i \in DOMAIN srcs : srcs[i].name = name
  THEN CHOOSE i \in DOMAIN srcs : srcs[i].name = name
  ELSE 0

\* A registry that keeps an earlier registration next to the new one
RegistrySetAppend(srcs, name, content, options) ==
  Append(srcs, [name |-> name, items |-> normalizeContent(name, content, options),
                options |-> options])

\* this.sources.set(source, ...): a Map keeps the place of a key it has
RegistrySet(srcs, name, content, options) ==
  LET entry == [name |-> name, items |-> normalizeContent(name, content, options),
                options |-> options]
      at    == SourceIndex(srcs, name)
  IN  IF at = 0 THEN Append(srcs, entry) ELSE [srcs EXCEPT ![at] = entry]

RegistryDelete(srcs, name) == SelectSeq(srcs, LAMBDA src : src.name # name)

\* options.scorer(item, query), for the scorers of the model
ScorerApply(scorer, item, query) ==
  IF scorer = "byLength" THEN FromInt(Len(item.content) + Len(query))
  ELSE FromInt(item.index + 1)

\* IsTruthy(query): if (query)
QueryGiven(query) == query.given /\ query.text # <<>>

\* A scoring in which the recency decay comes after the scorer and so
\* scales what the scorer returned
ScoreSourceDecayLast(src, query) ==
  LET based   == [i \in 1..Len(src.items) |->
                    [src.items[i] EXCEPT !.score = scorePriority(src.items[i].priority)]]
      scored  == IF src.options.scorer # "none" /\ QueryGiven(query)
                 THEN [i \in 1..Len(based) |->
                         IF based[i].priority # "required"
                         THEN [based[i] EXCEPT
                                 !.score = ScorerApply(src.options.scorer, based[i], query.text)]
                         ELSE based[i]]
                 ELSE based
      decayed == IF src.name = "history" \/ src.options.compressStrategy = "summarize-oldest"
                 THEN applyRecencyBias(scored, DefaultMinFactor) ELSE scored
  IN  [src EXCEPT !.items = decayed]

\* A scoring that starts from the score an earlier pack() left in an item
ScoreSourceKeepScore(src, query) ==
  LET based   == [i \in 1..Len(src.items) |->
                    IF src.items[i].score = FZero
                    THEN [src.items[i] EXCEPT !.score = scorePriority(src.items[i].priority)]
                    ELSE src.items[i]]
      decayed == IF src.name = "history" \/ src.options.compressStrategy = "summarize-oldest"
                 THEN applyRecencyBias(based, DefaultMinFactor) ELSE based
      scored  == IF src.options.scorer # "none" /\ QueryGiven(query)
                 THEN [i \in 1..Len(decayed) |->
                         IF decayed[i].priority # "required"
                         THEN [decayed[i] EXCEPT
                                 !.score = ScorerApply(src.options.scorer, decayed[i], query.text)]
                         ELSE decayed[i]]
                 ELSE decayed
  IN  [src EXCEPT !.items = scored]

\* collectAndScore: the scores are written into the registered items
ScoreSource(src, query) ==
  LET based   == [i \in 1..Len(src.items) |->
                    [src.items[i] EXCEPT !.score = scorePriority(src.items[i].priority)]]
      decayed == IF src.name = "history" \/ src.options.compressStrategy = "summarize-oldest"
                 THEN applyRecencyBias(based, DefaultMinFactor) ELSE based
      scored  == IF src.options.scorer # "none" /\ QueryGiven(query)
                 THEN [i \in 1..Len(decayed) |->
                         IF decayed[i].priority # "required"
                         THEN [decayed[i] EXCEPT
                                 !.score = ScorerApply(src.options.scorer, decayed[i], query.text)]
                         ELSE decayed[i]]
                 ELSE decayed
  IN  [src EXCEPT !.items = scored]

ScoreSources(srcs, query) == [i \in 1..Len(srcs) |-> ScoreSource(srcs[i], query)]

RECURSIVE AllItemsOf(_)
AllItemsOf(srcs) ==
  IF srcs = <<>> THEN <<>> ELSE srcs[1].items \o AllItemsOf(Tail(srcs))

RECURSIVE collectConstraints(_)
collectConstraints(srcs) ==
  IF srcs = <<>> THEN <<>>
  ELSE [k \in 1..Len(srcs[1].options.requires) |->
          [ifIncluded  |-> srcs[1].options.requires[k][1],
           thenRequire |-> srcs[1].options.requires[k][2]]]
       \o collectConstraints(Tail(srcs))

QueryItem(query) ==
  [id |-> ItemId("query", "0"), source |-> "query", content |-> query.text,
   value |-> [kind |-> "string", text |-> query.text, named |-> FALSE, name |-> ""],
   tokens |-> TokenizerCount(query.text), priority |-> "required",
   score |-> Infinity, index |-> 0]

\* dropped.map(d => allItems.find(i => i.id === d.id)!).filter(Boolean)
ResolveDropped(dropped, allItems) ==
  [j \in 1..Len(dropped) |-> allItems[FindIndex(allItems, dropped[j].id)]]

\* The sources of a list of items, and the items of one source
SourcesOf(items) == {items[i].source : i \in DOMAIN items}
FromSource(items, source) == SelectSeq(items, LAMBDA i : i.source = source)

\* breakdown[source]: tokens and items of the included items, and for the
\* dropped ones their number and the reason of the first (0 and "" when the
\* fields are absent)
SourceStats(included, dropped, source) ==
  LET inc == FromSource(included, source)
      drp == FromSource(dropped, source)
  IN  [tokens  |-> SumTokens(inc),
       items   |-> Len(inc),
       dropped |-> Len(drp),
       reason  |-> IF drp = <<>> THEN "" ELSE drp[1].reason]

\* estimatedCost, a price formatted from config.model, is left out
buildStats(included, dropped, budget) ==
  LET totalTokens == SumTokens(included)
  IN  [totalTokens |-> totalTokens,
       budget      |-> budget,
       utilization |-> IF budget > 0 THEN FDivInt(FromInt(totalTokens), budget) ELSE FZero,
       breakdown   |-> [source \in SourcesOf(included) \cup SourcesOf(dropped) |->
                          SourceStats(included, dropped, source)]]

RECURSIVE BToInt(_)
BToInt(a) == IF a = <<>> THEN 0 ELSE a[1] + Base * BToInt(Tail(a))

\* Math.floor and Math.ceil of a number >= 0
FFloor(x) ==
  IF x.cls = "zero" THEN 0
  ELSE IF x.e >= 0 THEN BToInt(BShl(x.m, x.e))
  ELSE BToInt(BShr(x.m, 0 - x.e).q)

FCeil(x) ==
  IF x.cls = "zero" THEN 0
  ELSE IF x.e >= 0 THEN BToInt(BShl(x.m, x.e))
  ELSE LET sh == BShr(x.m, 0 - x.e)
       IN  BToInt(sh.q) + (IF sh.sticky THEN 1 ELSE 0)

\* The number literals 0.3 and 0.7
MiddleFrom == FDivInt(FromInt(3), 10)
MiddleTo == FDivInt(FromInt(7), 10)

\* A detection that warns already when the required items fill the budget
detectWarningsAtBudget(included, dropped, budget) ==
  LET requiredTokens == SumTokens(SelectSeq(included, LAMBDA i : i.score = Infinity))
      totalItems     == Len(included)
      middleStart    == FFloor(FMul(FromInt(totalItems), MiddleFrom))
      middleEnd      == FCeil(FMul(FromInt(totalItems), MiddleTo))
      middleItems    == SubSeq(included, middleStart + 1, middleEnd)
      highScoreInMiddle ==
        SelectSeq(middleItems,
                  LAMBDA i : i.score # Infinity /\ ~FLess(i.score, FromInt(80)))
      toolCount       == Len(FromSource(included, "tools"))
      totalDropped    == Len(dropped)
      totalConsidered == Len(included) + totalDropped
      totalTokens     == SumTokens(included)
  IN  (IF requiredTokens >= budget THEN <<"budget-exceeded">> ELSE <<>>)
      \o (IF totalItems >= 5 /\ Len(highScoreInMiddle) > 0
          THEN <<"lost-in-middle">> ELSE <<>>)
      \o (IF toolCount > 10 THEN <<"tool-overload">> ELSE <<>>)
      \o (IF totalConsidered > 0 /\ 2 * totalDropped > totalConsidered
          THEN <<"high-drop-rate">> ELSE <<>>)
      \o (IF budget > 0 /\ 10 * totalTokens < budget /\ totalDropped = 0
          THEN <<"low-utilization">> ELSE <<>>)

\* The warnings, by type.  The ratios against 0.5 and 0.1 are decided on
\* the integers, which is exact for token counts
detectWarnings(included, dropped, budget) ==
  LET requiredTokens == SumTokens(SelectSeq(included, LAMBDA i : i.score = Infinity))
      totalItems     == Len(included)
      middleStart    == FFloor(FMul(FromInt(totalItems), MiddleFrom))
      middleEnd      == FCeil(FMul(FromInt(totalItems), MiddleTo))
      middleItems    == SubSeq(included, middleStart + 1, middleEnd)
      highScoreInMiddle ==
        SelectSeq(middleItems,
                  LAMBDA i : i.score # Infinity /\ ~FLess(i.score, FromInt(80)))
      toolCount       == Len(FromSource(included, "tools"))
      totalDropped    == Len(dropped)
      totalConsidered == Len(included) + totalDropped
      totalTokens     == SumTokens(included)
  IN  (IF requiredTokens > budget THEN <<"budget-exceeded">> ELSE <<>>)
      \o (IF totalItems >= 5 /\ Len(highScoreInMiddle) > 0
          THEN <<"lost-in-middle">> ELSE <<>>)
      \o (IF toolCount > 10 THEN <<"tool-overload">> ELSE <<>>)
      \o (IF totalConsidered > 0 /\ 2 * totalDropped > totalConsidered
          THEN <<"high-drop-rate">> ELSE <<>>)
      \o (IF budget > 0 /\ 10 * totalTokens < budget /\ totalDropped = 0
          THEN <<"low-utilization">> ELSE <<>>)

\* allItems: what collectAndScore returned, and the query item if (query)
PackItems(scored, query) ==
  AllItemsOf(scored) \o (IF QueryGiven(query) THEN <<QueryItem(query)>> ELSE <<>>)

\* finalDropped: dropped without the items the constraints added, then the
\* items they removed
FinalDropped(dropped, added, removed) ==
  SelectSeq(dropped, LAMBDA d : d.id \notin ItemIds(added))
    \o [k \in 1..Len(removed) |->
          DroppedItem(removed[k], "constraint dependency unavailable")]

PackResult(placed, finalDropped, budget) ==
  [returned |-> TRUE,
   items    |-> placed,
   stats    |-> buildStats(placed, finalDropped, budget),
   warnings |-> detectWarnings(placed, finalDropped, budget),
   dropped  |-> finalDropped]

\* ------------------------------------------------------------------------
\* State
\* ------------------------------------------------------------------------

VARIABLES
  gItems,   \* greedyPack: the items argument
  gBudget,  \* greedyPack: the budget argument
  gOut,     \* greedyPack: the PackDecision returned
  gPc,      \* "idle" | "call" | "done"
  cIn,      \* enforceConstraints: included, available, constraints, budget
  cSt,      \* enforceConstraints: its locals (included is mutated in place)
  cNext,    \* enforceConstraints: the index of the constraint the loop is at
  cPc,      \* "idle" | "call" | "loop" | "done"
  config,   \* ContextOptimizer: contextWindow and reserveOutput
  sources,  \* ContextOptimizer: the Map of sources, in insertion order
  call,     \* ContextOptimizer: the last call made and its arguments
  result,   \* ContextOptimizer: what the last pack() returned
  registered, \* history: what add() was given and stored, less remove()/clear()
  firstPacks, \* history: per query, what the first pack() since the registry
              \* last changed returned
  rItems,   \* applyRecencyBias: the items array, mutated in place
  rMin,     \* applyRecencyBias: options.minFactor
  rPc,      \* "idle" | "call" | "done"
  pItems,   \* applyPlacement: the items argument
  pOut,     \* applyPlacement: the PackedItem[] returned
  pPc,      \* "idle" | "call" | "done"
  tText,    \* truncateToTokens: the text argument
  tTarget,  \* truncateToTokens: the targetTokens argument
  tOut,     \* truncateToTokens: the string returned
  tPc       \* "idle" | "call" | "done"

greedyVars == <<gItems, gBudget, gOut, gPc>>
constraintVars == <<cIn, cSt, cNext, cPc>>
optimizerVars == <<config, sources, call, result, registered, firstPacks>>
recencyVars == <<rItems, rMin, rPc>>
placementVars == <<pItems, pOut, pPc>>
truncateVars == <<tText, tTarget, tOut, tPc>>
vars == <<gItems, gBudget, gOut, gPc, cIn, cSt, cNext, cPc,
          config, sources, call, result, registered, firstPacks, rItems, rMin, rPc,
          pItems, pOut, pPc, tText, tTarget, tOut, tPc>>

NoDecision == [included |-> <<>>, dropped |-> <<>>, totalTokens |-> 0]

GreedyIdle ==
  gItems = <<>> /\ gBudget = 0 /\ gOut = NoDecision /\ gPc = "idle"

NoConstraintInput ==
  [included |-> <<>>, available |-> <<>>, constraints |-> <<>>, budget |-> 0]

ConstraintsIdle ==
  cIn = NoConstraintInput /\ cSt = EnterConstraints(<<>>) /\ cNext = 0 /\ cPc = "idle"

NoConfig == [contextWindow |-> 0, hasReserveOutput |-> FALSE, reserveOutput |-> 0]
NoQuery == [given |-> FALSE, text |-> <<>>]
NoCall == [op |-> "none", source |-> "", query |-> NoQuery]
NoResult == [returned |-> FALSE]

OptimizerIdle ==
  /\ config = NoConfig /\ sources = <<>> /\ call = NoCall /\ result = NoResult
  /\ registered = {}
  /\ firstPacks = {}

RecencyIdle == rItems = <<>> /\ rMin = FZero /\ rPc = "idle"

PlacementIdle == pItems = <<>> /\ pOut = <<>> /\ pPc = "idle"

TruncateIdle == tText = <<>> /\ tTarget = 0 /\ tOut = <<>> /\ tPc = "idle"

\* ------------------------------------------------------------------------
\* greedyPack called on its own
\* ------------------------------------------------------------------------

\* Bound of the inputs: the length of the item list
MaxItems == 3

TokenCosts == {0, 1, 2}
Budgets == {0 - 1, 0, 1, 2, 3, 4}
ItemIndexes == {0, 1}
\* Scores of optional items: two tiers
OptionalScores == {FromInt(PriorityLow), FromInt(PriorityMedium)}

\* The items that can stand at position p of the list: required with score
\* Infinity, or optional with a finite score; any index, whatever p
GreedyItemsAt(p) ==
  { [id |-> ItemId("item", ToString(p)),
     source |-> IF p % 2 = 1 THEN "rag" ELSE "tools",
     content |-> "x", value |-> "x",
     tokens |-> t, priority |-> k[1], score |-> k[2], index |-> i] :
      t \in TokenCosts, i \in ItemIndexes,
      k \in ({<<"required", Infinity>>} \cup ({"medium"} \X OptionalScores)) }

RECURSIVE GreedyLists(_)
GreedyLists(n) ==
  IF n = 0 THEN {<<>>}
  ELSE LET shorter == GreedyLists(n - 1)
       IN  shorter \cup
           { Append(l, x) : l \in {y \in shorter : Len(y) = n - 1}, x \in GreedyItemsAt(n) }

GreedyInit ==
  /\ gItems \in GreedyLists(MaxItems)
  /\ gBudget \in Budgets
  /\ gOut = NoDecision
  /\ gPc = "call"
  /\ ConstraintsIdle
  /\ OptimizerIdle
  /\ RecencyIdle
  /\ PlacementIdle
  /\ TruncateIdle

GreedyCall ==
  /\ gPc = "call"
  /\ gOut' = greedyPack(gItems, gBudget)
  /\ gPc' = "done"
  /\ UNCHANGED <<gItems, gBudget>>
  /\ UNCHANGED <<constraintVars, optimizerVars, recencyVars, placementVars, truncateVars>>

GreedyNext == GreedyCall

SpecGreedy == GreedyInit /\ [][GreedyNext]_vars

\* ------------------------------------------------------------------------
\* enforceConstraints called on its own, one loop turn per step
\* ------------------------------------------------------------------------

\* Bound of the inputs: the length of the constraint list
MaxConstraints == 2

ConstraintItemIds == {"a", "b", "c"}
\* an id no item has
UnknownId == "z"
ConstraintBudgets == 0..5
ConstraintTokens == [a |-> 2, b |-> 1, c |-> 1]
ConstraintPriorities == {"required", "medium"}

ConstraintItem(id, priority) ==
  [id |-> id, source |-> "tools", content |-> "x", value |-> "x",
   tokens |-> ConstraintTokens[id], priority |-> priority,
   score |-> scorePriority(priority), index |-> 0]

\* a trigger among the items, a dependency among them or unknown
ConstraintPairs ==
  { c \in [ifIncluded : ConstraintItemIds, thenRequire : ConstraintItemIds \cup {UnknownId}] :
      c.ifIncluded # c.thenRequire }

\* every item is either included or in the available pool
ConstraintInputs(maxLen) ==
  { [included    |-> SelectSeq(<<ConstraintItem("a", pa), ConstraintItem("b", pb),
                                 ConstraintItem("c", pc)>>,
                               LAMBDA i : i.id \in inc),
     available   |-> SelectSeq(<<ConstraintItem("a", pa), ConstraintItem("b", pb),
                                 ConstraintItem("c", pc)>>,
                               LAMBDA i : i.id \notin inc),
     constraints |-> cs,
     budget      |-> b] :
      inc \in SUBSET ConstraintItemIds,
      pa \in ConstraintPriorities, pb \in ConstraintPriorities, pc \in ConstraintPriorities,
      b \in ConstraintBudgets,
      cs \in UNION { [1..n -> ConstraintPairs] : n \in 0..maxLen } }

ConstraintsInit ==
  /\ cIn \in ConstraintInputs(MaxConstraints)
  /\ cSt = EnterConstraints(<<>>)
  /\ cNext = 0
  /\ cPc = "call"
  /\ GreedyIdle
  /\ OptimizerIdle
  /\ RecencyIdle
  /\ PlacementIdle
  /\ TruncateIdle

\* line 165: nothing to do without constraints
ConstraintsReturnEarly ==
  /\ cPc = "call"
  /\ cIn.constraints = <<>>
  /\ cSt' = [EnterConstraints(<<>>) EXCEPT !.included = cIn.included]
  /\ cPc' = "done"
  /\ UNCHANGED <<cIn, cNext>>
  /\ UNCHANGED <<greedyVars, optimizerVars, recencyVars, placementVars, truncateVars>>

\* lines 167-172
ConstraintsEnter ==
  /\ cPc = "call"
  /\ cIn.constraints # <<>>
  /\ cSt' = EnterConstraints(cIn.included)
  /\ cNext' = 1
  /\ cPc' = "loop"
  /\ UNCHANGED cIn
  /\ UNCHANGED <<greedyVars, optimizerVars, recencyVars, placementVars, truncateVars>>

\* lines 174-197, and the return after the last constraint
ConstraintsTurn ==
  /\ cPc = "loop"
  /\ cSt' = ConstraintStep(cSt, cIn.constraints[cNext], cIn.available, cIn.budget)
  /\ cNext' = cNext + 1
  /\ cPc' = IF cNext = Len(cIn.constraints) THEN "done" ELSE "loop"
  /\ UNCHANGED cIn
  /\ UNCHANGED <<greedyVars, optimizerVars, recencyVars, placementVars, truncateVars>>

ConstraintsNext == ConstraintsReturnEarly \/ ConstraintsEnter \/ ConstraintsTurn

SpecConstraints == ConstraintsInit /\ [][ConstraintsNext]_vars

\* ------------------------------------------------------------------------
\* enforceConstraints on longer constraint lists, no item required
\* ------------------------------------------------------------------------

\* Bound of the inputs: the length of the constraint list
MaxChained == 3

ChainedInputs(maxLen) ==
  { [included    |-> SelectSeq(<<ConstraintItem("a", "medium"), ConstraintItem("b", "medium"),
                                 ConstraintItem("c", "medium")>>,
                               LAMBDA i : i.id \in inc),
     available   |-> SelectSeq(<<ConstraintItem("a", "medium"), ConstraintItem("b", "medium"),
                                 ConstraintItem("c", "medium")>>,
                               LAMBDA i : i.id \notin inc),
     constraints |-> cs,
     budget      |-> b] :
      inc \in SUBSET ConstraintItemIds,
      b \in ConstraintBudgets,
      cs \in UNION { [1..n -> ConstraintPairs] : n \in maxLen..maxLen } }

ChainedInit ==
  /\ cIn \in ChainedInputs(MaxChained)
  /\ cSt = EnterConstraints(<<>>)
  /\ cNext = 0
  /\ cPc = "call"
  /\ GreedyIdle
  /\ OptimizerIdle
  /\ RecencyIdle
  /\ PlacementIdle
  /\ TruncateIdle

ChainedNext == ConstraintsEnter \/ ConstraintsTurn

SpecChained == ChainedInit /\ [][ChainedNext]_vars

\* ------------------------------------------------------------------------
\* ContextOptimizer.pack on the registries add() builds
\* ------------------------------------------------------------------------

\* Bound of the inputs: the length of a content array
MaxSourceItems == 2

\* Texts of 0, 1 and 2 tokens
EmptyText == <<>>
ShortText == <<"s", "n", "u", "g">>
LongText == <<"s", "n", "u", "g", "p", "a", "c", "k">>

StringValue(text) == [kind |-> "string", text |-> text, named |-> FALSE, name |-> ""]

\* add(source, [...strings]), the first string a short one, and add(source, '')
PackContents ==
  {[array |-> TRUE, values |-> v] :
     v \in UNION {{w \in [1..n -> {StringValue(ShortText), StringValue(LongText)}] :
                     w[1] = StringValue(ShortText)} : n \in 1..MaxSourceItems}}
  \cup {[array |-> FALSE, values |-> <<StringValue(EmptyText)>>]}

AddOptions(priority, hasKeepLast, keepLast, requires) ==
  [priority |-> priority, hasKeepLast |-> hasKeepLast, keepLast |-> keepLast,
   requires |-> requires, scorer |-> "none",
   dropStrategy |-> "absent", compressStrategy |-> "absent"]

\* requires of the tools source: on its own items and on the history
ToolsRequires ==
  {<<>>,
   <<<<ItemId("tools", "0"), ItemId("tools", "1")>>>>,
   <<<<ItemId("tools", "1"), ItemId("history", "1")>>,
     <<ItemId("tools", "0"), ItemId("history", "0")>>>>}

HistoryRequires ==
  {<<>>,
   <<<<ItemId("history", "1"), ItemId("history", "0")>>>>,
   <<<<ItemId("history", "0"), ItemId("tools", "0")>>>>}

ToolsOptions ==
  {AddOptions(p, FALSE, 0, r) : p \in {"required", "high"}, r \in ToolsRequires}

HistoryOptions ==
  {AddOptions("high", k, 1, r) : k \in BOOLEAN, r \in HistoryRequires}

ToolsAdded(srcs) == {RegistrySet(srcs, "tools", c, o) : c \in PackContents, o \in ToolsOptions}
HistoryAdded(srcs) ==
  {RegistrySet(srcs, "history", c, o) : c \in PackContents, o \in HistoryOptions}

\* The registries after no add(), one, or one for each of the two sources
IsPackRegistry(srcs) ==
  \/ srcs = <<>>
  \/ srcs \in ToolsAdded(<<>>)
  \/ srcs \in HistoryAdded(<<>>)
  \/ \E first \in ToolsAdded(<<>>) : srcs \in HistoryAdded(first)
  \/ \E first \in HistoryAdded(<<>>) : srcs \in ToolsAdded(first)

\* Budgets -1, 0 and 2 with the default reserve, and 3 with a reserve given
PackConfigs ==
  {[contextWindow |-> DEFAULT_RESERVE_OUTPUT + b, hasReserveOutput |-> FALSE,
    reserveOutput |-> 0] : b \in {0 - 1, 0, 2}}
  \cup {[contextWindow |-> 10, hasReserveOutput |-> TRUE, reserveOutput |-> 7]}

\* pack() and pack('snug')
PackQueries == {NoQuery, [given |-> TRUE, text |-> ShortText]}

\* What add() was given and stored for the sources of a registry: the raw
\* values, and the items before any pack() scored them
Unscored(items) == [k \in 1..Len(items) |-> [items[k] EXCEPT !.score = FZero]]

StoredBy(srcs) ==
  {[name |-> srcs[i].name,
    values |-> [k \in 1..Len(srcs[i].items) |-> srcs[i].items[k].value],
    items |-> Unscored(srcs[i].items), options |-> srcs[i].options] :
     i \in 1..Len(srcs)}

PackInit ==
  /\ config \in PackConfigs
  /\ IsPackRegistry(sources)
  /\ call = [op |-> "add", source |-> "", query |-> NoQuery]
  /\ result = NoResult
  /\ registered = StoredBy(sources)
  /\ firstPacks = {}
  /\ GreedyIdle
  /\ ConstraintsIdle
  /\ RecencyIdle
  /\ PlacementIdle
  /\ TruncateIdle

\* pack(query), statement by statement; collectAndScore writes the scores
\* into the registered items
PackCall(query) ==
  \E budget \in {BudgetOf(config)} :
  \E scored \in {ScoreSources(sources, query)} :
  \E allItems \in {PackItems(scored, query)} :
  \E decision \in {greedyPack(allItems, budget)} :
  \E enforced \in {enforceConstraints(decision.included,
                                      ResolveDropped(decision.dropped, allItems),
                                      collectConstraints(scored), budget)} :
  \E finalDropped \in {FinalDropped(decision.dropped, enforced.added, enforced.removed)} :
  \E placed \in {applyPlacement(enforced.included)} :
    /\ sources' = scored
    /\ result' = PackResult(placed, finalDropped, budget)
    /\ call' = [op |-> "pack", source |-> "", query |-> query]
    /\ firstPacks' = IF \E f \in firstPacks : f.query = query THEN firstPacks
                     ELSE firstPacks \cup {[query |-> query, result |-> result']}
    /\ UNCHANGED <<config, registered>>
    /\ UNCHANGED <<greedyVars, constraintVars, recencyVars, placementVars, truncateVars>>

PackNext == \E query \in PackQueries : PackCall(query)

SpecPack == PackInit /\ [][PackNext]_vars

\* ------------------------------------------------------------------------
\* ContextOptimizer: add, remove, clear and pack in any order
\* ------------------------------------------------------------------------

\* add(source, content, options): the history keeps what was stored
AddCall(source, content, options) ==
  /\ sources' = RegistrySet(sources, source, content, options)
  /\ registered' = {r \in registered : r.name # source}
                      \cup {[name |-> source,
                             values |-> content.values,
                             items |-> normalizeContent(source, content, options),
                             options |-> options]}
  /\ call' = [op |-> "add", source |-> source, query |-> NoQuery]
  /\ result' = NoResult
  /\ firstPacks' = {}
  /\ UNCHANGED config
  /\ UNCHANGED <<greedyVars, constraintVars, recencyVars, placementVars, truncateVars>>

\* remove(source)
RemoveCall(source) ==
  /\ sources' = RegistryDelete(sources, source)
  /\ registered' = {r \in registered : r.name # source}
  /\ call' = [op |-> "remove", source |-> source, query |-> NoQuery]
  /\ result' = NoResult
  /\ firstPacks' = {}
  /\ UNCHANGED config
  /\ UNCHANGED <<greedyVars, constraintVars, recencyVars, placementVars, truncateVars>>

\* clear()
ClearCall ==
  /\ sources' = <<>>
  /\ registered' = {}
  /\ call' = [op |-> "clear", source |-> "", query |-> NoQuery]
  /\ result' = NoResult
  /\ firstPacks' = {}
  /\ UNCHANGED config
  /\ UNCHANGED <<greedyVars, constraintVars, recencyVars, placementVars, truncateVars>>

RegistryNames == {"tools", "history", "query"}

ArrayOf(texts) == [array |-> TRUE, values |-> [i \in 1..Len(texts) |-> StringValue(texts[i])]]

ScorerOptions(priority, hasKeepLast, keepLast, scorer) ==
  [AddOptions(priority, hasKeepLast, keepLast, <<>>) EXCEPT !.scorer = scorer]

\* The object {id: 1}, with its JSON text of 3 tokens
NumberedObject ==
  [kind |-> "object", text |-> <<"{", "\"", "i", "d", "\"", ":", "1", "}">>,
   named |-> TRUE, name |-> "1"]

\* The add() calls of the harness: a floating source with or without a
\* scorer, a history with or without keepLast and scorer, and a source that
\* the caller names 'query' and that holds the object {id: 1}
RegistryAdds ==
  {[source |-> "tools", content |-> ArrayOf(a[1]),
    options |-> ScorerOptions("high", FALSE, 0, a[2])] :
     a \in {<<<<ShortText, LongText>>, "none">>, <<<<ShortText, LongText>>, "byLength">>,
            <<<<ShortText>>, "none">>}}
  \cup
  {[source |-> "history", content |-> ArrayOf(a[1]),
    options |-> ScorerOptions("high", a[2], 1, a[3])] :
     a \in {<<<<ShortText, ShortText>>, FALSE, "none">>,
            <<<<ShortText, ShortText>>, FALSE, "byIndex">>,
            <<<<ShortText, ShortText>>, TRUE, "byIndex">>,
            <<<<LongText>>, FALSE, "none">>}}
  \cup
  {[source |-> "query", content |-> [array |-> FALSE, values |-> <<NumberedObject>>],
    options |-> ScorerOptions("high", FALSE, 0, "none")]}

\* Budgets 1 and 4
RegistryConfigs ==
  {[contextWindow |-> DEFAULT_RESERVE_OUTPUT + b, hasReserveOutput |-> FALSE,
    reserveOutput |-> 0] : b \in {1, 4}}

\* pack(), pack('') and pack('snug')
RegistryQueries == PackQueries \cup {[given |-> TRUE, text |-> EmptyText]}

\* new ContextOptimizer(config)
RegistryInit ==
  /\ config \in RegistryConfigs
  /\ sources = <<>>
  /\ call = NoCall
  /\ result = NoResult
  /\ registered = {}
  /\ firstPacks = {}
  /\ GreedyIdle
  /\ ConstraintsIdle
  /\ RecencyIdle
  /\ PlacementIdle
  /\ TruncateIdle

RegistryNext ==
  \/ \E a \in RegistryAdds : AddCall(a.source, a.content, a.options)
  \/ \E source \in RegistryNames : RemoveCall(source)
  \/ ClearCall
  \/ \E query \in RegistryQueries : PackCall(query)

SpecRegistry == RegistryInit /\ [][RegistryNext]_vars

\* ------------------------------------------------------------------------
\* ContextOptimizer: a history added with keepLast, and packed
\* ------------------------------------------------------------------------

\* Bound of the inputs: the length of the history; keepLast goes from -1 to
\* one more than this
MaxKeepLast == 3

\* AddOptions with a dropStrategy
DropOptions(priority, hasKeepLast, keepLast, dropStrategy) ==
  [AddOptions(priority, hasKeepLast, keepLast, <<>>) EXCEPT !.dropStrategy = dropStrategy]

\* add('history', [k times 'snug'], {priority, keepLast, dropStrategy}),
\* keepLast absent (n = -2 below) or a whole number from -1 on, dropStrategy
\* absent or 'none'
KeepLastAdds ==
  {[source |-> "history",
    content |-> ArrayOf([i \in 1..k |-> ShortText]),
    options |-> DropOptions(p, n >= 0 - 1, IF n >= 0 - 1 THEN n ELSE 0, d)] :
     k \in 1..MaxKeepLast, p \in {"high", "low"}, n \in (0 - 2)..(MaxKeepLast + 1),
     d \in {"absent", "none"}}

\* Budgets -1, 0 and 2
KeepLastConfigs ==
  {[contextWindow |-> DEFAULT_RESERVE_OUTPUT + b, hasReserveOutput |-> FALSE,
    reserveOutput |-> 0] : b \in {0 - 1, 0, 2}}

KeepLastInit ==
  /\ config \in KeepLastConfigs
  /\ sources = <<>>
  /\ call = NoCall
  /\ result = NoResult
  /\ registered = {}
  /\ firstPacks = {}
  /\ GreedyIdle
  /\ ConstraintsIdle
  /\ RecencyIdle
  /\ PlacementIdle
  /\ TruncateIdle

KeepLastNext ==
  \/ \E a \in KeepLastAdds : AddCall(a.source, a.content, a.options)
  \/ \E query \in PackQueries : PackCall(query)

SpecKeepLast == KeepLastInit /\ [][KeepLastNext]_vars

\* ------------------------------------------------------------------------
\* ContextOptimizer: three sources whose requires name each other's items
\* ------------------------------------------------------------------------

\* add(source, content, {priority: 'high', requires}), or no add at all
\* when the requires are "absent"
AddIfPresent(srcs, source, texts, requires) ==
  IF requires = "absent" THEN srcs
  ELSE RegistrySet(srcs, source, ArrayOf(texts), AddOptions("high", FALSE, 0, requires))

\* requires of tools, memory and history; every key is an item of the
\* source that declares it
ChainToolsRequires ==
  {"absent", <<>>, <<<<ItemId("tools", "0"), ItemId("tools", "1")>>>>}

ChainMemoryRequires ==
  {"absent", <<>>, <<<<ItemId("memory", "0"), ItemId("history", "0")>>>>}

ChainHistoryRequires ==
  {"absent", <<>>,
   <<<<ItemId("history", "1"), ItemId("history", "0")>>>>,
   <<<<ItemId("history", "0"), ItemId("tools", "1")>>,
     <<ItemId("history", "1"), ItemId("history", "0")>>>>}

\* tools = ['snug', 'snugpack'], memory = ['snug'], history = ['snug', 'snug'],
\* added in that order
ChainRegistry(t, m, h) ==
  AddIfPresent(
    AddIfPresent(
      AddIfPresent(<<>>, "tools", <<ShortText, LongText>>, t),
      "memory", <<ShortText>>, m),
    "history", <<ShortText, ShortText>>, h)

\* Budgets 2, 3 and 4
ChainConfigs ==
  {[contextWindow |-> DEFAULT_RESERVE_OUTPUT + b, hasReserveOutput |-> FALSE,
    reserveOutput |-> 0] : b \in {2, 3, 4}}

ChainInit ==
  /\ config \in ChainConfigs
  /\ \E t \in ChainToolsRequires, m \in ChainMemoryRequires, h \in ChainHistoryRequires :
       sources = ChainRegistry(t, m, h)
  /\ call = [op |-> "add", source |-> "", query |-> NoQuery]
  /\ result = NoResult
  /\ registered = StoredBy(sources)
  /\ firstPacks = {}
  /\ GreedyIdle
  /\ ConstraintsIdle
  /\ RecencyIdle
  /\ PlacementIdle
  /\ TruncateIdle

SpecChain == ChainInit /\ [][PackNext]_vars

\* ------------------------------------------------------------------------
\* applyRecencyBias called on its own
\* ------------------------------------------------------------------------

\* Bound of the inputs: the length of the items array
MaxRecencyItems == 10

\* An item as collectAndScore hands it over: scored by its priority
RecencyItem(priority, index) ==
  [id |-> ItemId("history", ToString(index)), source |-> "history",
   content |-> ShortText, value |-> StringValue(ShortText),
   tokens |-> TokenizerCount(ShortText), priority |-> priority,
   score |-> scorePriority(priority), index |-> index]

\* n items of one priority, at most one of them required instead
RecencyLists(n) ==
  {[i \in 1..n |-> RecencyItem(IF i = r THEN "required" ELSE p, i - 1)] :
     p \in {"high", "low"}, r \in 0..n}

\* minFactor left to its default 0.1, or given as 0.5
RecencyMinFactors == {DefaultMinFactor, FDivInt(FromInt(1), 2)}

RecencyInit ==
  /\ \E n \in 0..MaxRecencyItems : rItems \in RecencyLists(n)
  /\ rMin \in RecencyMinFactors
  /\ rPc = "call"
  /\ GreedyIdle
  /\ ConstraintsIdle
  /\ OptimizerIdle
  /\ PlacementIdle
  /\ TruncateIdle

RecencyCall ==
  /\ rPc = "call"
  /\ rItems' = applyRecencyBias(rItems, rMin)
  /\ rPc' = "done"
  /\ UNCHANGED rMin
  /\ UNCHANGED <<greedyVars, constraintVars, optimizerVars, placementVars, truncateVars>>

RecencyNext == RecencyCall

SpecRecency == RecencyInit /\ [][RecencyNext]_vars

\* ------------------------------------------------------------------------
\* applyPlacement called on its own
\* ------------------------------------------------------------------------

\* Bound of the inputs: the length of the item list
MaxPlacementItems == 5

\* system, query and history are the sources applyPlacement names; tools
\* stands for every other source
PlacementSources == {"system", "query", "history", "tools"}

\* The scores of a list by position: descending 90, 70, 50, ..., ascending,
\* shuffled, with ties, and with required items (Infinity) among them
PlacementScore(pattern, k) ==
  IF pattern = "descending" THEN FromInt(10 + 20 * (MaxPlacementItems - k))
  ELSE IF pattern = "ascending" THEN FromInt(10 + 20 * (k - 1))
  ELSE IF pattern = "shuffled" THEN FromInt(10 + 20 * ((2 * k) % MaxPlacementItems))
  ELSE IF pattern = "ties" THEN FromInt(10 + 20 * (k % 2))
  ELSE IF k % 2 = 1 THEN Infinity ELSE FromInt(10 + 20 * (k % 3))

PlacementScorePatterns == {"descending", "ascending", "shuffled", "ties", "required"}

\* The index fields of a list by position: in order, reversed, with ties
PlacementIndex(pattern, k) ==
  IF pattern = "inOrder" THEN k - 1
  ELSE IF pattern = "reversed" THEN MaxPlacementItems - k
  ELSE k % 2

PlacementIndexPatterns == {"inOrder", "reversed", "ties"}

PlacementItem(source, score, index, k) ==
  [id       |-> ItemId(source, ToString(k)),
   source   |-> source,
   content  |-> IF k % 2 = 1 THEN ShortText ELSE LongText,
   value    |-> StringValue(IF k % 2 = 1 THEN ShortText ELSE LongText),
   tokens   |-> k,
   priority |-> IF score = Infinity THEN "required" ELSE "high",
   score    |-> score,
   index    |-> index]

PlacementLists(n) ==
  {[k \in 1..n |-> PlacementItem(src[k], PlacementScore(sp, k), PlacementIndex(ip, k), k)] :
     src \in [1..n -> PlacementSources],
     sp \in PlacementScorePatterns, ip \in PlacementIndexPatterns}

PlacementInit ==
  /\ \E n \in 0..MaxPlacementItems : pItems \in PlacementLists(n)
  /\ pOut = <<>>
  /\ pPc = "call"
  /\ GreedyIdle
  /\ ConstraintsIdle
  /\ OptimizerIdle
  /\ RecencyIdle
  /\ TruncateIdle

PlacementCall ==
  /\ pPc = "call"
  /\ pOut' = applyPlacement(pItems)
  /\ pPc' = "done"
  /\ UNCHANGED pItems
  /\ UNCHANGED <<greedyVars, constraintVars, optimizerVars, recencyVars, truncateVars>>

PlacementNext == PlacementCall

SpecPlacement == PlacementInit /\ [][PlacementNext]_vars

\* applyPlacement called on its own, or a ContextOptimizer used through
\* add, remove, clear and pack
SpecPlacementOrRegistry ==
  (PlacementInit \/ RegistryInit)
    /\ [][PlacementNext \/ (pPc = "idle" /\ RegistryNext)]_vars

\* ------------------------------------------------------------------------
\* truncateToTokens called on its own, with the default tokenizer
\* ------------------------------------------------------------------------

\* Bounds of the inputs: the length of the text and the largest target
MaxTextLen == 7
MaxTargetTokens == 3

\* a letter, a space and a structural character
TruncateChars == {"a", " ", "{"}

TruncateTexts(n) == [1..n -> TruncateChars]

TruncateInit ==
  /\ \E n \in 0..MaxTextLen : tText \in TruncateTexts(n)
  /\ tTarget \in (0 - 1)..MaxTargetTokens
  /\ tOut = <<>>
  /\ tPc = "call"
  /\ GreedyIdle
  /\ ConstraintsIdle
  /\ OptimizerIdle
  /\ RecencyIdle
  /\ PlacementIdle

TruncateCall ==
  /\ tPc = "call"
  /\ tOut' = truncateToTokens(tText, tTarget)
  /\ tPc' = "done"
  /\ UNCHANGED <<tText, tTarget>>
  /\ UNCHANGED <<greedyVars, constraintVars, optimizerVars, recencyVars, placementVars>>

TruncateNext == TruncateCall

SpecTruncate == TruncateInit /\ [][TruncateNext]_vars

\* ------------------------------------------------------------------------
\* Helpers of the properties
\* ------------------------------------------------------------------------

Range(s) == {s[i] : i \in DOMAIN s}

Ids(items) == [i \in DOMAIN items |-> items[i].id]

RECURSIVE Occurrences(_, _)
Occurrences(x, s) ==
  IF s = <<>> THEN 0
  ELSE (IF s[1] = x THEN 1 ELSE 0) + Occurrences(x, Tail(s))

\* the dropped entry of an item carries its source, id, tokens and score
IsDropped(item, dropped) ==
  \E j \in DOMAIN dropped :
    /\ dropped[j].id = item.id
    /\ dropped[j].source = item.source
    /\ dropped[j].tokens = item.tokens
    /\ dropped[j].score = item.score

Max(a, b) == IF a >= b THEN a ELSE b

GRequired == SelectSeq(gItems, IsRequired)
GOptional == SelectSeq(gItems, IsOptional)
GAdmitted == SelectSeq(gOut.included, IsOptional)

\* a sorts strictly before b on (score descending, tokens ascending)
KeyBefore(a, b) ==
  \/ FLess(b.score, a.score)
  \/ a.score = b.score /\ a.tokens < b.tokens

SameKey(a, b) == a.score = b.score /\ a.tokens = b.tokens

\* the position of an item in the input list (ids are positions here)
GPosition(item) == CHOOSE i \in DOMAIN gItems : gItems[i].id = item.id

\* ------------------------------------------------------------------------
\* Properties of greedyPack (SpecGreedy)
\* ------------------------------------------------------------------------

\* C1: every required item is in the returned included list, exactly once,
\* and never in dropped, and its cost is counted in totalTokens, even when
\* the required items alone cost more than the budget.
C1_RequiredAlwaysIncluded ==
  gPc = "done" =>
    /\ \A i \in DOMAIN gItems :
         IsRequired(gItems[i]) =>
           /\ Occurrences(gItems[i], gOut.included) = 1
           /\ ~IsDropped(gItems[i], gOut.dropped)
           /\ \A j \in DOMAIN gOut.dropped : gOut.dropped[j].id # gItems[i].id
    /\ gOut.totalTokens = SumTokens(GRequired) + SumTokens(GAdmitted)

C1_Witness ==
  /\ gPc = "done"
  /\ Len(GRequired) >= 2
  /\ SumTokens(GRequired) > gBudget
  /\ gBudget > 0
  /\ Len(gOut.dropped) >= 1

\* C3: an optional item is admitted only if the running total plus its cost
\* is within the budget at that moment; totalTokens never exceeds
\* max(budget, cost of the required items) and is the cost of included.
C3_BudgetRespected ==
  gPc = "done" =>
    /\ \A j \in DOMAIN gOut.included :
         IsOptional(gOut.included[j]) =>
           SumTokens(SubSeq(gOut.included, 1, j)) <= gBudget
    /\ gOut.totalTokens <= Max(gBudget, SumTokens(GRequired))
    /\ gOut.totalTokens = SumTokens(gOut.included)

C3_Witness ==
  /\ gPc = "done"
  /\ Len(GAdmitted) >= 1
  /\ Len(gOut.dropped) >= 1
  /\ Len(GRequired) >= 1
  /\ gOut.totalTokens = gBudget

\* C7: optional items are considered by descending score and, at equal
\* score, the cheaper first: the optional part of included and the dropped
\* list are in that order, and an item is dropped only when it did not fit
\* on top of the required items and of the admitted items that do not sort
\* after it.
C7_ScoreThenTokensOrder ==
  gPc = "done" =>
    /\ \A i, j \in DOMAIN GAdmitted :
         i < j => ~KeyBefore(GAdmitted[j], GAdmitted[i])
    /\ \A i, j \in DOMAIN gOut.dropped :
         i < j => ~KeyBefore(gOut.dropped[j], gOut.dropped[i])
    /\ \A j \in DOMAIN gOut.dropped :
         LET d      == gOut.dropped[j]
             before == SelectSeq(GAdmitted, LAMBDA a : ~KeyBefore(d, a))
         IN  SumTokens(GRequired) + SumTokens(before) + d.tokens > gBudget
    /\ \A i \in DOMAIN GOptional :
         Occurrences(GOptional[i], gOut.included) = 1 \/ IsDropped(GOptional[i], gOut.dropped)

\* the tie-break scenario of the tests: equal score, the cheaper item is
\* admitted and the dearer one, earlier in the input, is dropped
C7_Witness ==
  /\ gPc = "done"
  /\ \E i, j \in DOMAIN gItems :
       /\ i < j
       /\ IsOptional(gItems[i]) /\ IsOptional(gItems[j])
       /\ gItems[i].score = gItems[j].score
       /\ gItems[j].tokens < gItems[i].tokens
       /\ gItems[j] \in Range(gOut.included)
       /\ IsDropped(gItems[i], gOut.dropped)

\* C8 as stated: optional items of equal score and equal cost are considered
\* in ascending order of their index field.
C8_TieByIndex ==
  gPc = "done" =>
    \A i, j \in DOMAIN gItems :
      LET a == gItems[i]
          b == gItems[j]
      IN  (IsOptional(a) /\ IsOptional(b) /\ SameKey(a, b) /\ a.index < b.index) =>
            /\ ~(IsDropped(a, gOut.dropped) /\ b \in Range(gOut.included))
            /\ \A x, y \in DOMAIN gOut.included :
                 (gOut.included[x] = a /\ gOut.included[y] = b) => x < y

\* C8 amended: optional items of equal score and equal cost are considered
\* in the order they have in the input list (the sort is stable and never
\* reads the index), so the admission order is still deterministic.
C8_TieByInputOrder ==
  gPc = "done" =>
    \A i, j \in DOMAIN gItems :
      LET a == gItems[i]
          b == gItems[j]
      IN  (IsOptional(a) /\ IsOptional(b) /\ SameKey(a, b) /\ i < j) =>
            /\ ~(IsDropped(a, gOut.dropped) /\ b \in Range(gOut.included))
            /\ \A x, y \in DOMAIN gOut.included :
                 (gOut.included[x] = a /\ gOut.included[y] = b) => x < y
            /\ \A x, y \in DOMAIN gOut.dropped :
                 (gOut.dropped[x].id = a.id /\ gOut.dropped[y].id = b.id) => x < y

\* two tied optional items, the later one with the smaller index; the
\* earlier one is admitted and the budget is then used up
C8_Witness ==
  /\ gPc = "done"
  /\ \E i, j \in DOMAIN gItems :
       /\ i < j
       /\ IsOptional(gItems[i]) /\ IsOptional(gItems[j])
       /\ SameKey(gItems[i], gItems[j])
       /\ gItems[j].index < gItems[i].index
       /\ gItems[i] \in Range(gOut.included)
       /\ IsDropped(gItems[j], gOut.dropped)

\* C9 as stated: with budget <= 0 included is exactly the required items and
\* every optional item, cost 0 included, is dropped; an empty list gives an
\* empty decision.
C9_NoOptionalAtZeroBudget ==
  (gPc = "done" /\ gBudget <= 0) =>
    /\ gOut.included = GRequired
    /\ \A i \in DOMAIN GOptional : IsDropped(GOptional[i], gOut.dropped)
    /\ Len(gOut.dropped) = Len(GOptional)

\* C9 amended: with budget <= 0 every optional item of positive cost is
\* dropped; the optional items of cost 0 are admitted exactly when the
\* budget is 0 and the required items cost 0 in total, and dropped
\* otherwise; included starts with the required items; an empty list gives
\* empty included, empty dropped and totalTokens 0.
C9_OnlyFreeOptionalAtZeroBudget ==
  /\ (gPc = "done" /\ gBudget <= 0) =>
       LET free == gBudget = 0 /\ SumTokens(GRequired) = 0
       IN  /\ SubSeq(gOut.included, 1, Len(GRequired)) = GRequired
           /\ \A i \in DOMAIN GOptional :
                LET x == GOptional[i]
                IN  IF free /\ x.tokens = 0
                    THEN x \in Range(gOut.included) /\ ~IsDropped(x, gOut.dropped)
                    ELSE x \notin Range(gOut.included) /\ IsDropped(x, gOut.dropped)
           /\ Len(gOut.included) + Len(gOut.dropped) = Len(gItems)
  /\ (gPc = "done" /\ gItems = <<>>) => gOut = NoDecision

C9_Witness ==
  /\ gPc = "done"
  /\ gBudget = 0
  /\ \E i, j \in DOMAIN GOptional :
       /\ GOptional[i].tokens = 0 /\ GOptional[i] \in Range(gOut.included)
       /\ GOptional[j].tokens > 0 /\ IsDropped(GOptional[j], gOut.dropped)

\* C30: greedyPack goes on after an item that does not fit: an optional
\* item is admitted whenever it fits beside the required items and the
\* admitted items that do not sort after it, whatever was dropped before;
\* and when an optional item is dropped while one of strictly lower score
\* is admitted, the admitted one costs strictly less.
C30_PassedOverForCheaper ==
  gPc = "done" =>
    /\ \A i \in DOMAIN GOptional :
         (SumTokens(GRequired)
            + SumTokens(SelectSeq(GAdmitted,
                                  LAMBDA a : a.id # GOptional[i].id
                                             /\ ~KeyBefore(GOptional[i], a)))
            + GOptional[i].tokens <= gBudget)
           => GOptional[i] \in Range(gOut.included)
    /\ \A j \in DOMAIN gOut.dropped :
         \A i \in DOMAIN GAdmitted :
           FLess(GAdmitted[i].score, gOut.dropped[j].score)
             => GAdmitted[i].tokens < gOut.dropped[j].tokens

\* an item of the higher tier was dropped and a cheaper one of the lower
\* tier, considered after it, was admitted
C30_Witness ==
  /\ gPc = "done"
  /\ \E j \in DOMAIN gOut.dropped :
       \E i \in DOMAIN GAdmitted :
         /\ FLess(GAdmitted[i].score, gOut.dropped[j].score)
         /\ GAdmitted[i].tokens < gOut.dropped[j].tokens
         /\ GAdmitted[i].tokens > 0

\* ------------------------------------------------------------------------
\* Properties of enforceConstraints (SpecConstraints)
\* ------------------------------------------------------------------------

CAllItems == cIn.included \o cIn.available
CItem(id) == CAllItems[CHOOSE i \in DOMAIN CAllItems : CAllItems[i].id = id]

\* C5: at return, for every constraint whose trigger is not required and
\* whose dependency exists in the initial included set or in the available
\* pool: the trigger is in the final included set only if the dependency is.
C5_TriggerNeverWithoutDependency ==
  cPc = "done" =>
    \A k \in DOMAIN cIn.constraints :
      LET t == cIn.constraints[k].ifIncluded
          d == cIn.constraints[k].thenRequire
      IN  (/\ t \in ItemIds(CAllItems)
           /\ CItem(t).priority # "required"
           /\ d \in ItemIds(CAllItems)
           /\ t \in ItemIds(cSt.included))
          => d \in ItemIds(cSt.included)

\* C6: a loop turn on a constraint whose trigger is included and whose
\* dependency is in the pool and not included: if the dependency fits it is
\* appended to included and to added and the total grows by its cost;
\* otherwise a trigger that is not required leaves included, is appended to
\* removed and the total shrinks by its cost; a required trigger leaves
\* included, added, removed and the total as they are.
C6_TurnEffect ==
  [][ cPc = "loop" =>
        LET c == cIn.constraints[cNext]
        IN  (/\ c.ifIncluded \in ItemIds(cSt.included)
             /\ c.thenRequire \notin ItemIds(cSt.included)
             /\ c.thenRequire \in ItemIds(cIn.available))
            =>
            LET dep     == CItem(c.thenRequire)
                trigger == CItem(c.ifIncluded)
                total   == SumTokens(cSt.included)
            IN  /\ cSt.currentTokens = total
                /\ cSt'.currentTokens = SumTokens(cSt'.included)
                /\ IF total + dep.tokens <= cIn.budget
                   THEN /\ cSt'.included = Append(cSt.included, dep)
                        /\ cSt'.added = Append(cSt.added, dep)
                        /\ cSt'.removed = cSt.removed
                        /\ cSt'.currentTokens = total + dep.tokens
                   ELSE IF trigger.priority # "required"
                   THEN /\ cSt'.included = SelectSeq(cSt.included, LAMBDA i : i.id # trigger.id)
                        /\ cSt'.removed = Append(cSt.removed, trigger)
                        /\ cSt'.added = cSt.added
                        /\ cSt'.currentTokens = total - trigger.tokens
                   ELSE /\ cSt'.included = cSt.included
                        /\ cSt'.added = cSt.added
                        /\ cSt'.removed = cSt.removed
                        /\ cSt'.currentTokens = total
    ]_vars

\* a call in which one turn removed a trigger and another, on a required
\* trigger whose dependency did not fit, changed nothing
C6_Witness ==
  /\ cPc = "done"
  /\ Len(cSt.removed) = 1
  /\ \E k \in DOMAIN cIn.constraints :
       LET c == cIn.constraints[k]
       IN  /\ c.ifIncluded \in ItemIds(cIn.included)
           /\ CItem(c.ifIncluded).priority = "required"
           /\ c.thenRequire \in ItemIds(cIn.available)
           /\ c.thenRequire \notin ItemIds(cSt.included)
           /\ c.thenRequire \notin ItemIds(cSt.removed)

\* C24: the constraints are taken one at a time in list order, each against
\* the state the earlier ones left: a turn on a trigger an earlier turn
\* evicted changes nothing; a dependency an earlier turn admitted acts as a
\* trigger (its own dependency is admitted, or it is evicted); a dependency
\* is admitted when it fits beside what is included now, even if it did not
\* fit before an earlier eviction.
C24_InListOrder ==
  [][ cPc = "loop" =>
        LET c        == cIn.constraints[cNext]
            evicted  == c.ifIncluded \in ItemIds(cSt.removed) \ ItemIds(cSt.included)
            admitted == c.ifIncluded \in ItemIds(cSt.added) \cap ItemIds(cSt.included)
            pending  == /\ c.ifIncluded \in ItemIds(cSt.included)
                        /\ c.thenRequire \notin ItemIds(cSt.included)
                        /\ c.thenRequire \in ItemIds(cIn.available)
            fits     == SumTokens(cSt.included) + CItem(c.thenRequire).tokens <= cIn.budget
        IN  /\ cNext' = cNext + 1
            /\ cPc' = "done" <=> cNext = Len(cIn.constraints)
            /\ evicted => cSt' = cSt
            /\ (admitted /\ pending) =>
                  IF fits THEN c.thenRequire \in ItemIds(cSt'.included)
                  ELSE CItem(c.ifIncluded).priority # "required"
                         => c.ifIncluded \notin ItemIds(cSt'.included)
            /\ (pending /\ fits) =>
                  cSt'.included = Append(cSt.included, CItem(c.thenRequire))
    ]_vars

\* a call on two constraints with one dependency: the first evicted its
\* trigger because the dependency did not fit, the second admitted the
\* dependency into the room that made; with the two constraints exchanged
\* the other trigger is the one that stays
C24_Witness ==
  /\ cPc = "done"
  /\ Len(cIn.constraints) = 2
  /\ cIn.constraints[1].thenRequire = cIn.constraints[2].thenRequire
  /\ Ids(cSt.removed) = <<cIn.constraints[1].ifIncluded>>
  /\ Ids(cSt.added) = <<cIn.constraints[2].thenRequire>>
  /\ SumTokens(cIn.included) + SumTokens(cSt.added) > cIn.budget
  /\ cIn.constraints[2].ifIncluded \in ItemIds(cSt.included)
  /\ ItemIds(enforceConstraints(cIn.included, cIn.available,
                                Reverse(cIn.constraints), cIn.budget).included)
       = (ItemIds(cSt.included) \ {cIn.constraints[2].ifIncluded})
           \cup {cIn.constraints[1].ifIncluded}

\* a turn was skipped because an earlier turn had evicted its trigger
C24_SkippedAfterEviction ==
  /\ cPc = "done"
  /\ Len(cIn.constraints) = 2
  /\ Ids(cSt.removed) = <<cIn.constraints[2].ifIncluded>>
  /\ cIn.constraints[1].ifIncluded = cIn.constraints[2].ifIncluded
  /\ cIn.constraints[2].thenRequire \in ItemIds(cIn.available)
  /\ cIn.constraints[2].thenRequire \notin ItemIds(cSt.included)
  /\ SumTokens(cSt.included) + CItem(cIn.constraints[2].thenRequire).tokens <= cIn.budget

\* a dependency admitted by the first turn was the trigger of the second,
\* which admitted its dependency in turn
C24_AdmittedThenTrigger ==
  /\ cPc = "done"
  /\ Len(cIn.constraints) = 2
  /\ cIn.constraints[2].ifIncluded = cIn.constraints[1].thenRequire
  /\ Ids(cSt.added) = <<cIn.constraints[1].thenRequire, cIn.constraints[2].thenRequire>>

\* C25: a turn on a constraint whose trigger is not included now, whose
\* dependency is included now, or whose dependency is neither included nor
\* in the available pool leaves included, added, removed and the running
\* total as they are (in the last case the trigger stays included); a call
\* with no constraints returns included as given, with added and removed
\* empty.
C25_TurnsWithoutEffect ==
  [][ /\ cPc = "loop" =>
           LET c == cIn.constraints[cNext]
           IN  (\/ c.ifIncluded \notin ItemIds(cSt.included)
                \/ c.thenRequire \in ItemIds(cSt.included)
                \/ c.thenRequire \notin ItemIds(cSt.included) \cup ItemIds(cIn.available))
               => /\ cSt'.included = cSt.included
                  /\ cSt'.added = cSt.added
                  /\ cSt'.removed = cSt.removed
                  /\ cSt'.currentTokens = cSt.currentTokens
                  /\ cPc' \in {"loop", "done"}
      /\ (cPc = "call" /\ cIn.constraints = <<>>) =>
           /\ cPc' = "done"
           /\ cSt'.included = cIn.included
           /\ cSt'.added = <<>>
           /\ cSt'.removed = <<>>
    ]_vars

\* a call has returned with nothing added or removed although a trigger
\* that is included and not required asked for a dependency nobody has
C25_Witness ==
  /\ cPc = "done"
  /\ cSt.added = <<>>
  /\ cSt.removed = <<>>
  /\ cSt.included = cIn.included
  /\ \E k \in DOMAIN cIn.constraints :
       /\ cIn.constraints[k].thenRequire = UnknownId
       /\ cIn.constraints[k].ifIncluded \in ItemIds(cSt.included)
       /\ CItem(cIn.constraints[k].ifIncluded).priority # "required"

\* C27: with unique item ids, an item evicted as a trigger is not admitted
\* again later in the same call, even when a later constraint names it as
\* its dependency and it fits: at return no item of removed is in included.
C27_EvictedStaysOut ==
  (cPc = "done"
     /\ Cardinality(ItemIds(CAllItems)) = Len(CAllItems))
    => ItemIds(cSt.removed) \cap ItemIds(cSt.included) = {}

\* ------------------------------------------------------------------------
\* Properties of enforceConstraints on longer lists (SpecChained)
\* ------------------------------------------------------------------------

\* the locals after the first k turns of the call
CAfter(k) ==
  ConstraintLoop(EnterConstraints(cIn.included), SubSeq(cIn.constraints, 1, k),
                 cIn.available, cIn.budget)

\* turn k admitted the dependency of its constraint
TurnAdmitted(k) ==
  Len(CAfter(k).added) = Len(CAfter(k - 1).added) + 1

\* turn j evicted the trigger of its constraint
TurnEvicted(j) ==
  Len(CAfter(j).removed) = Len(CAfter(j - 1).removed) + 1

\* C28 as stated: a dependency a turn admitted for a trigger is in the
\* final included set when a later turn evicted that trigger.
C28_DependencyStays ==
  cPc = "done" =>
    \A k \in DOMAIN cIn.constraints :
      \A j \in (k + 1)..Len(cIn.constraints) :
        (/\ TurnAdmitted(k)
         /\ TurnEvicted(j)
         /\ cIn.constraints[j].ifIncluded = cIn.constraints[k].ifIncluded)
        => cIn.constraints[k].thenRequire \in ItemIds(cSt.included)

\* C28, amended: a turn that evicts a trigger takes nothing else out of
\* included, so the dependencies admitted for it stay and keep their part
\* of the total; at return an admitted dependency is in included unless it
\* was itself evicted as the trigger of a constraint.
C28_EvictionTakesTriggerOnly ==
  [][ /\ cPc = "loop" =>
           /\ ItemIds(cSt.included) \ ItemIds(cSt'.included)
                \subseteq {cIn.constraints[cNext].ifIncluded}
           /\ cSt'.removed # cSt.removed =>
                /\ cSt'.included
                     = SelectSeq(cSt.included,
                                 LAMBDA i : i.id # cIn.constraints[cNext].ifIncluded)
                /\ cSt'.added = cSt.added
                /\ cSt'.currentTokens = SumTokens(cSt'.included)
      /\ cPc' = "done" =>
           ItemIds(cSt'.added) \ ItemIds(cSt'.removed) \subseteq ItemIds(cSt'.included)
    ]_vars

\* the first turn admitted a dependency for a trigger, the second evicted
\* that trigger, and at return the dependency is included without it
C28_Witness ==
  /\ cPc = "done"
  /\ TurnAdmitted(1)
  /\ TurnEvicted(2)
  /\ cIn.constraints[2].ifIncluded = cIn.constraints[1].ifIncluded
  /\ Ids(cSt.added) = <<cIn.constraints[1].thenRequire>>
  /\ Ids(cSt.removed) = <<cIn.constraints[1].ifIncluded>>
  /\ cIn.constraints[1].thenRequire \in ItemIds(cSt.included)
  /\ cSt.currentTokens = SumTokens(cSt.included)
  /\ cSt.currentTokens >= CItem(cIn.constraints[1].thenRequire).tokens

\* ------------------------------------------------------------------------
\* Properties of ContextOptimizer.pack (SpecPack)
\* ------------------------------------------------------------------------

PackReturned == call.op = "pack" /\ result.returned

\* the candidates of the last pack(): the registered items and the query item
PackCandidates ==
  AllItemsOf(sources)
    \o (IF QueryGiven(call.query) THEN <<QueryItem(call.query)>> ELSE <<>>)

PackRequired == SelectSeq(PackCandidates, IsRequired)

\* C2: whatever the registry, the budget and the requires constraints, every
\* required item (declared required, promoted by keepLast, or the query
\* item) is in result.items, once, and not in result.dropped.
C2_RequiredAlwaysPacked ==
  PackReturned =>
    \A k \in DOMAIN PackRequired :
      /\ Occurrences(PackRequired[k].id, [i \in DOMAIN result.items |-> result.items[i].id]) = 1
      /\ PackRequired[k].id \notin ItemIds(result.dropped)

\* a pack with a query and no budget, in which a constraint's trigger is an
\* item keepLast promoted and its dependency was dropped for the budget
C2_Witness ==
  /\ PackReturned
  /\ QueryGiven(call.query)
  /\ BudgetOf(config) <= 0
  /\ \E s \in DOMAIN sources :
       /\ sources[s].options.priority # "required"
       /\ \E k \in DOMAIN sources[s].options.requires :
            LET trigger == sources[s].options.requires[k][1]
                dep     == sources[s].options.requires[k][2]
            IN  /\ \E i \in DOMAIN sources[s].items :
                     /\ sources[s].items[i].id = trigger
                     /\ sources[s].items[i].priority = "required"
                /\ \E j \in DOMAIN result.dropped :
                     /\ result.dropped[j].id = dep
                     /\ result.dropped[j].reason = "budget exhausted"

\* C4: when the required items cost at most the budget, the total of
\* result.items, which stats.totalTokens reports, is at most the budget,
\* whatever the requires constraints.
C4_TotalWithinBudget ==
  PackReturned =>
    /\ result.stats.totalTokens = SumTokens(result.items)
    /\ result.stats.budget = BudgetOf(config)
    /\ SumTokens(PackRequired) <= BudgetOf(config)
         => result.stats.totalTokens <= BudgetOf(config)

\* a pack in which a constraint pulled in an item greedyPack had dropped
C4_Witness ==
  /\ PackReturned
  /\ SumTokens(PackRequired) <= BudgetOf(config)
  /\ \E i \in DOMAIN result.items :
       result.items[i].id \in ItemIds(greedyPack(PackCandidates, BudgetOf(config)).dropped)

\* ------------------------------------------------------------------------
\* Properties of applyPlacement (SpecPlacement)
\* ------------------------------------------------------------------------

FromSources(items, names) == SelectSeq(items, LAMBDA i : i.source \in names)

Floating(items) == SelectSeq(items, LAMBDA i : i.source \notin {"system", "query", "history"})

\* C12: in the output of applyPlacement every 'system' item comes before
\* every other item and every 'query' item after every other item; the
\* system items and the query items are in the order of the input, the
\* former tagged 'beginning', the latter 'end'.
C12_PinnedAtTheEdges ==
  pPc = "done" =>
    /\ \A i, j \in DOMAIN pOut :
         pOut[i].source = "system" /\ pOut[j].source # "system" => i < j
    /\ \A i, j \in DOMAIN pOut :
         pOut[i].source = "query" /\ pOut[j].source # "query" => j < i
    /\ Ids(FromSources(pOut, {"system"})) = Ids(FromSources(pItems, {"system"}))
    /\ Ids(FromSources(pOut, {"query"})) = Ids(FromSources(pItems, {"query"}))
    /\ \A i \in DOMAIN pOut :
         /\ pOut[i].source = "system" => pOut[i].placement = "beginning"
         /\ pOut[i].source = "query" => pOut[i].placement = "end"

\* a call whose input starts with a query item and ends with a system item,
\* with two of each and a floating item of a higher score between them
C12_Witness ==
  /\ pPc = "done"
  /\ Len(pItems) = 5
  /\ pItems[1].source = "query" /\ pItems[2].source = "system"
  /\ pItems[3].source = "tools"
  /\ pItems[4].source = "query" /\ pItems[5].source = "system"
  /\ FLess(pItems[5].score, pItems[3].score)
  /\ Ids(pOut) = <<pItems[2].id, pItems[5].id, pItems[3].id, pItems[1].id, pItems[4].id>>

\* the index field of the input item a placed item was made from
OriginalIndex(packed) == pItems[FindIndex(pItems, packed.id)].index

\* C13: in the output of applyPlacement the 'history' items are in
\* ascending order of the index they had in the input, whatever their scores
\* and their order in the input, are tagged 'end', and fill the places
\* right before the query items, after every floating item.
C13_HistoryInOrderBeforeQuery ==
  pPc = "done" =>
    LET nQuery   == Len(FromSources(pOut, {"query"}))
        nHistory == Len(FromSources(pOut, {"history"}))
        first    == Len(pOut) - nQuery - nHistory + 1
        last     == Len(pOut) - nQuery
    IN  /\ nHistory = Len(FromSources(pItems, {"history"}))
        /\ \A i \in DOMAIN pOut : pOut[i].source = "history" <=> (first <= i /\ i <= last)
        /\ \A i \in first..last : pOut[i].placement = "end"
        /\ \A i, j \in first..last : i < j => OriginalIndex(pOut[i]) <= OriginalIndex(pOut[j])
        /\ \A i \in DOMAIN pOut :
             pOut[i].source \notin {"system", "query", "history"} => i < first

\* a call whose input holds three history items, the newest first and with
\* the lowest score, then a query item and a floating item
C13_Witness ==
  /\ pPc = "done"
  /\ Len(pItems) = 5
  /\ \A k \in 1..3 : pItems[k].source = "history" /\ pItems[k].index = 5 - k
  /\ FLess(pItems[1].score, pItems[2].score) /\ FLess(pItems[2].score, pItems[3].score)
  /\ pItems[4].source = "query" /\ pItems[5].source = "tools"
  /\ Ids(pOut) = <<pItems[5].id, pItems[3].id, pItems[2].id, pItems[1].id, pItems[4].id>>

Scores(items) == [i \in DOMAIN items |-> items[i].score]

Tagged(items, placement) == SelectSeq(items, LAMBDA i : i.placement = placement)

\* the floating item of rank r (from 0) that an output stands for: the even
\* ranks are the 'beginning' part in order, the odd ranks the 'middle' part
\* read backwards
RankedFloating(r) ==
  LET outer  == Tagged(Floating(pOut), "beginning")
      middle == Tagged(Floating(pOut), "middle")
  IN  IF r % 2 = 0 THEN outer[(r \div 2) + 1] ELSE middle[Len(middle) - (r \div 2)]

\* C14: the floating items of the output are the 'beginning' part followed
\* by the 'middle' part; read as even ranks in order and odd ranks backwards
\* they are the floating items of the input ranked by descending score; so
\* the scores do not increase along the 'beginning' part and do not decrease
\* along the 'middle' part, and scores 90, 70, 50, 30, 10 come out as
\* 90, 50, 10, 30, 70.
C14_EdgesFirst ==
  pPc = "done" =>
    LET floating == Floating(pOut)
        n        == Len(floating)
        outer    == Tagged(floating, "beginning")
        middle   == Tagged(floating, "middle")
    IN  /\ floating = outer \o middle
        /\ Len(outer) = (n + 1) \div 2
        /\ Len(middle) = n \div 2
        /\ n = Len(Floating(pItems))
        /\ {RankedFloating(r).id : r \in 0..(n - 1)} = Range(Ids(Floating(pItems)))
        /\ \A r \in 0..(n - 1) :
             RankedFloating(r).score = Floating(pItems)[FindIndex(Floating(pItems), RankedFloating(r).id)].score
        /\ \A q, r \in 0..(n - 1) :
             q < r => ~FLess(RankedFloating(q).score, RankedFloating(r).score)
        /\ \A i, j \in DOMAIN outer : i < j => ~FLess(outer[i].score, outer[j].score)
        /\ \A i, j \in DOMAIN middle : i < j => ~FLess(middle[j].score, middle[i].score)
        /\ (n = 5 /\ Range(Scores(Floating(pItems)))
                        = {FromInt(90), FromInt(70), FromInt(50), FromInt(30), FromInt(10)})
             => Scores(floating)
                  = <<FromInt(90), FromInt(50), FromInt(10), FromInt(30), FromInt(70)>>

\* a call on five floating items of scores 50, 90, 30, 70, 10
C14_Witness ==
  /\ pPc = "done"
  /\ Scores(pItems) = <<FromInt(50), FromInt(90), FromInt(30), FromInt(70), FromInt(10)>>
  /\ \A k \in 1..5 : pItems[k].source = "tools"
  /\ Scores(pOut) = <<FromInt(90), FromInt(50), FromInt(10), FromInt(30), FromInt(70)>>
  /\ [i \in 1..5 |-> pOut[i].placement]
       = <<"beginning", "beginning", "beginning", "middle", "middle">>

\* what applyPlacement copies from an item, and with the score
Carried(item) ==
  [id |-> item.id, source |-> item.source, content |-> item.content,
   value |-> item.value, tokens |-> item.tokens]

CarriedWithScore(item) ==
  [id |-> item.id, source |-> item.source, content |-> item.content,
   value |-> item.value, tokens |-> item.tokens, score |-> item.score]

CarriedAll(items) == [i \in DOMAIN items |-> CarriedWithScore(items[i])]

\* C15: the output of applyPlacement holds each input item once, nothing
\* else, with the id, source, content, value, tokens and score of the input
\* item; and every item pack() returns has the id, source, content, tokens
\* and value that add() stored for it (the value is the raw value given to
\* add) or is the query item.
C15_PureRearrangement ==
  /\ pPc = "done" =>
       /\ Len(pOut) = Len(pItems)
       /\ \A x \in Range(CarriedAll(pItems)) \cup Range(CarriedAll(pOut)) :
            Occurrences(x, CarriedAll(pItems)) = Occurrences(x, CarriedAll(pOut))
       /\ \A id \in Range(Ids(pItems)) \cup Range(Ids(pOut)) :
            Occurrences(id, Ids(pItems)) = Occurrences(id, Ids(pOut))
  /\ (pPc = "idle" /\ PackReturned) =>
       \A i \in DOMAIN result.items :
         \/ QueryGiven(call.query)
              /\ Carried(result.items[i]) = Carried(QueryItem(call.query))
         \/ \E r \in registered : \E k \in DOMAIN r.items :
              /\ Carried(result.items[i]) = Carried(r.items[k])
              /\ result.items[i].value = r.values[k]

\* applyPlacement has moved every item of a five-item list
C15_PlacementMoves ==
  /\ pPc = "done"
  /\ Len(pItems) = 5
  /\ \A k \in 1..5 : pOut[k].id # pItems[k].id

\* a pack() has returned, placed in the middle, the second item of a source
\* added with ['snug', 'snugpack']
C15_Witness ==
  /\ pPc = "idle"
  /\ PackReturned
  /\ \E r \in registered :
       /\ r.name = "tools"
       /\ r.values = <<StringValue(ShortText), StringValue(LongText)>>
       /\ \E i \in DOMAIN result.items :
            /\ result.items[i].id = ItemId("tools", "1")
            /\ result.items[i].value = r.values[2]
            /\ result.items[i].placement = "middle"

\* ------------------------------------------------------------------------
\* Properties of add, remove, clear and pack in any order (SpecRegistry)
\* ------------------------------------------------------------------------

\* what the last pack() reported about the item of that id and source: the
\* scores of its entries in result.items and result.dropped
ReportedScores(id, source) ==
  {result.items[i].score :
     i \in {j \in DOMAIN result.items :
              result.items[j].id = id /\ result.items[j].source = source}}
  \cup
  {result.dropped[i].score :
     i \in {j \in DOMAIN result.dropped :
              result.dropped[j].id = id /\ result.dropped[j].source = source}}

DecayApplies(src) ==
  (src.name = "history" \/ src.options.compressStrategy = "summarize-oldest")
    /\ Len(src.items) > 1

\* the tier score of the k-th item of a source, decayed where that applies
TierScore(src, k) ==
  IF src.items[k].priority = "required" THEN Infinity
  ELSE IF DecayApplies(src)
  THEN FMul(scorePriority(src.items[k].priority),
            RecencyFactor(k - 1, Len(src.items), DefaultMinFactor))
  ELSE scorePriority(src.items[k].priority)

\* C11: after pack(query), in every source: with a scorer and a non-empty
\* query a non-required item has the score scorer(item, query) and a
\* required item the unconditional score; without a scorer, or with no
\* query, an item has its tier score, decayed in a history.  The registered
\* item and its entry in result.items or result.dropped carry that score.
C11_ScorerOverride ==
  PackReturned =>
    \A s \in DOMAIN sources :
      \A k \in DOMAIN sources[s].items :
        \A expected \in
            {IF sources[s].items[k].priority = "required" THEN Infinity
             ELSE IF sources[s].options.scorer # "none" /\ QueryGiven(call.query)
             THEN ScorerApply(sources[s].options.scorer, sources[s].items[k], call.query.text)
             ELSE TierScore(sources[s], k)} :
          /\ sources[s].items[k].score = expected
          /\ ReportedScores(sources[s].items[k].id, sources[s].items[k].source) = {expected}

\* a pack with a query whose result holds the oldest of two history items
\* with the score its scorer gave, which is not its decayed tier score, next
\* to a required item of the same source
C11_Witness ==
  /\ PackReturned
  /\ QueryGiven(call.query)
  /\ \E s \in DOMAIN sources :
       /\ sources[s].name = "history"
       /\ sources[s].options.scorer = "byIndex"
       /\ Len(sources[s].items) = 2
       /\ sources[s].items[1].priority = "high"
       /\ sources[s].items[2].priority = "required"
       /\ sources[s].items[1].score = FromInt(1)
       /\ sources[s].items[1].score # TierScore(sources[s], 1)
       /\ \E i \in DOMAIN result.items :
            /\ result.items[i].id = sources[s].items[1].id
            /\ result.items[i].score = FromInt(1)

\* C16: what pack(q) returns (items in their order, scores, dropped, stats
\* and warnings) is what the first pack(q) since the registry last changed
\* returned, whatever pack calls, with whatever queries, came in between.
C16_PackIdempotent ==
  PackReturned =>
    \E f \in firstPacks : f.query = call.query /\ f.result = result

\* a pack() without query has returned after a pack() without query and a
\* pack('snug') on a history of two items with a scorer: the scores the
\* second call wrote are not those the third reports
C16_Witness ==
  /\ PackReturned
  /\ ~QueryGiven(call.query)
  /\ Cardinality(firstPacks) = 2
  /\ \E f \in firstPacks, i \in DOMAIN result.items :
       /\ QueryGiven(f.query)
       /\ i \in DOMAIN f.result.items
       /\ result.items[i].source = "history"
       /\ f.result.items[i].id = result.items[i].id
       /\ f.result.items[i].score # result.items[i].score

\* source, id and tokens of the entries of result.items and result.dropped
Considered ==
  {<<result.items[i].source, result.items[i].id, result.items[i].tokens>> :
     i \in DOMAIN result.items}
  \cup
  {<<result.dropped[i].source, result.dropped[i].id, result.dropped[i].tokens>> :
     i \in DOMAIN result.dropped}

\* the same of the items of the add() calls in force, and of the query item
RegisteredItems ==
  UNION {{<<r.items[k].source, r.items[k].id, r.items[k].tokens>> : k \in DOMAIN r.items} :
           r \in registered}

QueryConsidered ==
  IF QueryGiven(call.query)
  THEN {<<"query", QueryItem(call.query).id, QueryItem(call.query).tokens>>}
  ELSE {}

\* C17: after any add, remove and clear calls the registry holds one entry
\* for each name with an add() in force (the latest add() of a name that no
\* remove() or clear() followed), with the items of that add(); pack()
\* reports in items and dropped exactly those items and the query item;
\* after clear() the registry is empty, and a pack() without query on an
\* empty registry returns no items.
C17_LatestAddInForce ==
  /\ Len(sources) = Cardinality(registered)
  /\ \A r \in registered :
       \E i \in DOMAIN sources :
         /\ sources[i].name = r.name
         /\ sources[i].options = r.options
         /\ Unscored(sources[i].items) = r.items
  /\ call.op = "clear" => sources = <<>>
  /\ call.op = "remove" => \A i \in DOMAIN sources : sources[i].name # call.source
  /\ PackReturned =>
       /\ Considered = RegisteredItems \cup QueryConsidered
       /\ (registered = {} /\ ~QueryGiven(call.query)) =>
            result.items = <<>> /\ result.dropped = <<>>

\* add('tools', ['snug'], ...) has just replaced, in its place before the
\* history, a registration of two items
C17_Witness ==
  /\ call.op = "add"
  /\ call.source = "tools"
  /\ Len(sources) = 2
  /\ sources[1].name = "tools"
  /\ sources[2].name = "history"
  /\ Len(sources[1].items) = 1
  /\ Len(sources[2].items) = 2

\* pack() has returned nothing for a registry that clear() emptied
C17_EmptyPack ==
  /\ PackReturned
  /\ ~QueryGiven(call.query)
  /\ registered = {}
  /\ result.items = <<>>

\* C18: pack(query) with a non-empty query returns the query item (id
\* 'query_0', source 'query', the query as content) as the last element of
\* result.items, placed at the 'end', whatever the registry and the budget;
\* pack() and pack('') return no item with the id 'query_0'.
C18_QueryLast ==
  PackReturned =>
    IF QueryGiven(call.query)
    THEN /\ result.items # <<>>
         /\ result.items[Len(result.items)] = PackedItem(QueryItem(call.query), "end")
    ELSE \A i \in DOMAIN result.items : result.items[i].id # ItemId("query", "0")

\* ------------------------------------------------------------------------
\* Properties of a history added with keepLast (SpecKeepLast)
\* ------------------------------------------------------------------------

\* how many trailing items keepLast promotes in a source of k items
PromotedCount(options, k) ==
  IF options.hasKeepLast /\ options.keepLast > 0
  THEN (IF options.keepLast < k THEN options.keepLast ELSE k)
  ELSE 0

\* C19: in a source added with keepLast = N > 0 and k items the last
\* min(N, k) items are required and the others have the declared priority;
\* with keepLast absent, zero or negative all have the declared priority;
\* the promoted items are in the items of every pack(), whatever the budget.
C19_KeepLastPromotes ==
  \A s \in DOMAIN sources :
    \A i \in DOMAIN sources[s].items :
      IF i > Len(sources[s].items) - PromotedCount(sources[s].options, Len(sources[s].items))
      THEN /\ sources[s].items[i].priority = "required"
           /\ PackReturned =>
                Occurrences(sources[s].items[i].id, Ids(result.items)) = 1
      ELSE sources[s].items[i].priority = sources[s].options.priority

\* a pack() with no budget at all has returned the last two of three
\* history items, kept by keepLast = 2, and dropped the first
C19_Witness ==
  /\ PackReturned
  /\ BudgetOf(config) < 0
  /\ Len(sources) = 1
  /\ Len(sources[1].items) = 3
  /\ sources[1].options.hasKeepLast /\ sources[1].options.keepLast = 2
  /\ sources[1].options.priority = "low"
  /\ Ids(result.items) = <<ItemId("history", "1"), ItemId("history", "2")>>
  /\ Ids(result.dropped) = <<ItemId("history", "0")>>

\* C22: the items of a source registered with dropStrategy 'none' are never
\* dropped: every one of them is in the items of pack(), whatever the
\* budget, and none is in dropped.
C22_DropStrategyNone ==
  PackReturned =>
    \A s \in DOMAIN sources :
      sources[s].options.dropStrategy = "none" =>
        \A i \in DOMAIN sources[s].items :
          /\ Occurrences(sources[s].items[i].id, Ids(result.items)) = 1
          /\ Occurrences(sources[s].items[i].id, Ids(result.dropped)) = 0

\* ------------------------------------------------------------------------
\* Properties of pack() on sources that require each other's items (SpecChain)
\* ------------------------------------------------------------------------

\* C20: when the ids of the candidates are all different, every candidate
\* of pack() (the registered items and the query item) is once in
\* result.items or once in result.dropped, never in both, and nothing else
\* is in either; a dropped entry has the reason 'budget exhausted' or
\* 'constraint dependency unavailable'.
C20_EveryCandidateOnce ==
  (PackReturned /\ Cardinality(ItemIds(PackCandidates)) = Len(PackCandidates)) =>
    /\ \A k \in DOMAIN PackCandidates :
         Occurrences(PackCandidates[k].id, Ids(result.items))
           + Occurrences(PackCandidates[k].id, Ids(result.dropped)) = 1
    /\ ItemIds(result.items) \cup ItemIds(result.dropped) = ItemIds(PackCandidates)
    /\ \A j \in DOMAIN result.dropped :
         result.dropped[j].reason \in
           {"budget exhausted", "constraint dependency unavailable"}

\* ------------------------------------------------------------------------
\* Properties of pack() on one or two sources (SpecPack), continued
\* ------------------------------------------------------------------------

\* the entries of result.items that are required candidates
RequiredPacked ==
  SelectSeq(result.items, LAMBDA p : p.id \in ItemIds(PackRequired))

\* C21: pack() returns even when the required items alone cost more than
\* the budget, with all of them in items; result.warnings has
\* 'budget-exceeded' exactly when the required items of the output cost
\* more than the budget, and stats.totalTokens is above the budget only
\* together with that warning.
C21_OverflowWarned ==
  PackReturned =>
    /\ ItemIds(PackRequired) \subseteq ItemIds(result.items)
    /\ "budget-exceeded" \in Range(result.warnings)
         <=> SumTokens(RequiredPacked) > BudgetOf(config)
    /\ result.stats.totalTokens > BudgetOf(config)
         => "budget-exceeded" \in Range(result.warnings)

\* a pack with a budget of 2 has returned required items of 3 tokens (two
\* registered ones and the query), has dropped an optional item and warns
C21_Witness ==
  /\ PackReturned
  /\ BudgetOf(config) = 2
  /\ Len(RequiredPacked) = 3
  /\ SumTokens(RequiredPacked) = 3
  /\ result.stats.totalTokens = 3
  /\ result.dropped # <<>>
  /\ "budget-exceeded" \in Range(result.warnings)

\* the constraint fires on a dependency greedyPack dropped: its trigger was
\* included by greedyPack (decision g)
FiresOnDropped(g, constraint) ==
  /\ constraint.ifIncluded \in ItemIds(g.included)
  /\ constraint.thenRequire \in ItemIds(g.dropped)
  /\ constraint.thenRequire \notin ItemIds(g.included)

\* the first constraint of the list that fires on a dropped dependency
FirstToFire(g, cs, k) ==
  /\ FiresOnDropped(g, cs[k])
  /\ \A j \in 1..(k - 1) : ~FiresOnDropped(g, cs[j])

EvictedIds ==
  {result.dropped[j].id : j \in {i \in DOMAIN result.dropped :
      result.dropped[i].reason = "constraint dependency unavailable"}}

\* C26: in pack() no item greedyPack dropped fits beside what it included,
\* so the first constraint that fires on a dropped dependency does not
\* admit it: a trigger that is not required is evicted (it is not in
\* result.items and is reported dropped), a required one stays and nothing
\* changes.  A dropped dependency is in result.items only if some trigger
\* was evicted in the same call, and never when there is a single
\* constraint.
C26_DroppedNeverFitsAtFirst ==
  PackReturned =>
    \A g \in {greedyPack(PackCandidates, BudgetOf(config))} :
    \A cs \in {collectConstraints(sources)} :
      /\ \A j \in DOMAIN g.dropped :
           g.totalTokens + g.dropped[j].tokens > BudgetOf(config)
      /\ \A k \in DOMAIN cs :
           FirstToFire(g, cs, k) =>
             /\ ConstraintStep(EnterConstraints(g.included), cs[k],
                               ResolveDropped(g.dropped, PackCandidates), BudgetOf(config))
                  = RemoveTrigger(EnterConstraints(g.included), cs[k].ifIncluded)
             /\ IF cs[k].ifIncluded \in ItemIds(PackRequired)
                THEN /\ cs[k].ifIncluded \in ItemIds(result.items)
                     /\ Len(cs) = 1 =>
                          /\ ItemIds(result.items) = ItemIds(g.included)
                          /\ Ids(result.dropped) = Ids(g.dropped)
                ELSE /\ cs[k].ifIncluded \notin ItemIds(result.items)
                     /\ cs[k].ifIncluded \in EvictedIds
      /\ (\E j \in DOMAIN g.dropped : g.dropped[j].id \in ItemIds(result.items)) =>
           /\ EvictedIds # {}
           /\ Len(cs) > 1
      /\ (\A k \in DOMAIN cs : ~FiresOnDropped(g, cs[k])) =>
           /\ ItemIds(result.items) = ItemIds(g.included)
           /\ Ids(result.dropped) = Ids(g.dropped)

\* a pack in which greedyPack dropped two dependencies: the first constraint
\* evicted its trigger, and the room that made let a later constraint pull
\* the other dropped dependency into result.items
C26_Witness ==
  /\ PackReturned
  /\ \E g \in {greedyPack(PackCandidates, BudgetOf(config))} :
     \E cs \in {collectConstraints(sources)} :
       /\ Len(cs) >= 2
       /\ FirstToFire(g, cs, 1)
       /\ cs[1].ifIncluded \in EvictedIds
       /\ cs[1].thenRequire \in ItemIds(result.dropped)
       /\ \E j \in DOMAIN g.dropped : g.dropped[j].id \in ItemIds(result.items)

\* a pack with a single constraint whose required trigger stayed although
\* its dependency had been dropped, and nothing changed
C26_RequiredTriggerStays ==
  /\ PackReturned
  /\ \E g \in {greedyPack(PackCandidates, BudgetOf(config))} :
     \E cs \in {collectConstraints(sources)} :
       /\ Len(cs) = 1
       /\ FirstToFire(g, cs, 1)
       /\ cs[1].ifIncluded \in ItemIds(PackRequired)
       /\ cs[1].ifIncluded \in ItemIds(result.items)
       /\ cs[1].thenRequire \in ItemIds(result.dropped)

\* the ids the registered constraints name as thenRequire
DependencyIds(cs) == {cs[k].thenRequire : k \in DOMAIN cs}

\* C29: pack() does not refill the budget an eviction freed: every item of
\* result.items was admitted by greedyPack or is the thenRequire of a
\* registered constraint, and an item greedyPack dropped that no constraint
\* names as dependency is in result.dropped with 'budget exhausted', even
\* when it would fit beside result.items.
C29_NoRefill ==
  PackReturned =>
    \A g \in {greedyPack(PackCandidates, BudgetOf(config))} :
    \A deps \in {DependencyIds(collectConstraints(sources))} :
      /\ ItemIds(result.items) \subseteq ItemIds(g.included) \cup deps
      /\ \A j \in DOMAIN g.dropped :
           g.dropped[j].id \notin deps =>
             /\ g.dropped[j].id \notin ItemIds(result.items)
             /\ \E i \in DOMAIN result.dropped :
                  /\ result.dropped[i].id = g.dropped[j].id
                  /\ result.dropped[i].reason = "budget exhausted"

\* a pack in which a trigger was evicted and an item no constraint names
\* stayed dropped for the budget although it fits beside result.items
C29_Witness ==
  /\ PackReturned
  /\ EvictedIds # {}
  /\ \E i \in DOMAIN result.dropped :
       /\ result.dropped[i].reason = "budget exhausted"
       /\ result.dropped[i].id \notin DependencyIds(collectConstraints(sources))
       /\ result.dropped[i].id \notin ItemIds(result.items)
       /\ result.stats.totalTokens + result.dropped[i].tokens <= BudgetOf(config)

\* ------------------------------------------------------------------------
\* Properties of applyRecencyBias (SpecRecency)
\* ------------------------------------------------------------------------

\* the score an item had when applyRecencyBias was called
PreDecayScore(item) == scorePriority(item.priority)

\* C10: on a list of n > 1 items a non-required item at position i has its
\* score multiplied by minFactor + (1 - minFactor) * i / (n - 1), so the
\* decayed scores of items of equal pre-decay score do not decrease with
\* the position and a non-required last item keeps its pre-decay score;
\* required items keep their score; a list of 0 or 1 items is unchanged.
C10_RecencyBias ==
  rPc = "done" =>
    LET n == Len(rItems)
    IN  /\ \A i \in 1..n :
             rItems[i].priority = "required" => rItems[i].score = Infinity
        /\ n <= 1 => \A i \in 1..n : rItems[i].score = PreDecayScore(rItems[i])
        /\ n > 1 =>
             /\ \A i \in 1..n :
                  rItems[i].priority # "required" =>
                    rItems[i].score =
                      FMul(PreDecayScore(rItems[i]), RecencyFactor(i - 1, n, rMin))
             /\ \A i, j \in 1..n :
                  (/\ i < j
                   /\ rItems[i].priority # "required"
                   /\ rItems[j].priority = rItems[i].priority)
                    => ~FLess(rItems[j].score, rItems[i].score)
             /\ rItems[n].priority # "required" =>
                  rItems[n].score = PreDecayScore(rItems[n])

\* ------------------------------------------------------------------------
\* Properties of truncateToTokens (SpecTruncate)
\* ------------------------------------------------------------------------

IsPrefix(a, b) == Len(a) <= Len(b) /\ a = SubSeq(b, 1, Len(a))

\* C23: truncateToTokens returns the text unchanged when it counts at most
\* targetTokens, the empty string when it does not and targetTokens <= 0,
\* and otherwise a prefix of the text, possibly followed by '...', that
\* counts at most targetTokens under the same tokenizer.
C23_TruncatedFits ==
  tPc = "done" =>
    IF TokenizerCount(tText) <= tTarget THEN tOut = tText
    ELSE IF tTarget <= 0 THEN tOut = <<>>
    ELSE /\ \/ IsPrefix(tOut, tText)
            \/ \E n \in 0..Len(tText) : tOut = Slice(tText, n) \o Ellipsis
         /\ TokenizerCount(tOut) <= tTarget

\* what holds of the returned string: the prefix kept fits, and the string
\* returned costs at most one token more
C23_PrefixFits ==
  (tPc = "done" /\ TokenizerCount(tText) > tTarget /\ tTarget > 0) =>
    \E n \in 0..(Len(tText) - 1) :
      /\ tOut = Slice(tText, n) \o Ellipsis
      /\ TokenizerCount(tOut) <= tTarget + 1

====
